---------------------------- MODULE Spec2Model ----------------------------
(***************************************************************************)
(* Model of the one_person_dnd turn engine: the turn persister and its     *)
(* rollup, the change-request applier with the guardrail validator and the *)
(* deep merge, and the response parser they depend on.                     *)
(*                                                                         *)
(* Texts are sequences of characters (one-character strings).  A CJK       *)
(* character of the source is written as one symbol with an ASCII name     *)
(* ("zh_xuan" for U+9009 and so on), because module text is ASCII.         *)
(***************************************************************************)
EXTENDS Integers, Sequences, FiniteSets, TLC

(***************************************************************************)
(* Text primitives (Python str methods used by the source).                *)
(***************************************************************************)

\* str.strip() / splitlines(): the whitespace characters of the model.
WS == {" ", "\n", "\t", "\r"}

NL == <<"\n">>

RECURSIVE LStrip(_)
LStrip(t) ==
    IF t = <<>> THEN <<>>
    ELSE IF Head(t) \in WS THEN LStrip(Tail(t)) ELSE t

RECURSIVE RStrip(_)
RStrip(t) ==
    IF t = <<>> THEN <<>>
    ELSE IF t[Len(t)] \in WS THEN RStrip(SubSeq(t, 1, Len(t) - 1)) ELSE t

Strip(t) == RStrip(LStrip(t))

\* index of the first line boundary in t, 0 when there is none
RECURSIVE FirstNL(_, _)
FirstNL(t, i) ==
    IF i > Len(t) THEN 0
    ELSE IF t[i] \in {"\n", "\r"} THEN i ELSE FirstNL(t, i + 1)

RECURSIVE SplitLines(_)
SplitLines(t) ==
    IF t = <<>> THEN <<>>
    ELSE LET i == FirstNL(t, 1)
             j == IF i # 0 /\ i < Len(t) /\ t[i] = "\r" /\ t[i + 1] = "\n"
                  THEN i + 1 ELSE i
         IN IF i = 0 THEN <<t>>
            ELSE <<SubSeq(t, 1, i - 1)>> \o SplitLines(SubSeq(t, j + 1, Len(t)))

\* "\n".join(lines)
\* sep.join(lines)
RECURSIVE JoinWith(_, _)
JoinWith(lines, sep) ==
    IF lines = <<>> THEN <<>>
    ELSE IF Len(lines) = 1 THEN lines[1]
    ELSE lines[1] \o sep \o JoinWith(Tail(lines), sep)

RECURSIVE JoinLines(_)
JoinLines(lines) ==
    IF lines = <<>> THEN <<>>
    ELSE IF Len(lines) = 1 THEN lines[1]
    ELSE lines[1] \o NL \o JoinLines(Tail(lines))

\* t.startswith(p)
StartsWith(t, p) == Len(t) >= Len(p) /\ SubSeq(t, 1, Len(p)) = p

\* t[i:].startswith(p), i 1-based
MatchAt(t, i, p) == i + Len(p) - 1 <= Len(t) /\ SubSeq(t, i, i + Len(p) - 1) = p

(***************************************************************************)
(* JSON values: what json.loads returns.  A dict is a function from keys   *)
(* (texts) to values, so equality of two objects is Python's ==.           *)
(***************************************************************************)
JNull    == [t |-> "null"]
JBool(b) == [t |-> "bool", b |-> b]
JNum(n)  == [t |-> "num", n |-> n]
JStr(s)  == [t |-> "str", s |-> s]
JArr(a)  == [t |-> "arr", a |-> a]
JObj(o)  == [t |-> "obj", o |-> o]

IsDict(v) == v.t = "obj"
IsList(v) == v.t = "arr"

EmptyDict == JObj(<<>>)

Digits == <<"0", "1", "2", "3", "4", "5", "6", "7", "8", "9">>
IsDigit(c) == \E d \in 1..10 : Digits[d] = c
DigitVal(c) == (CHOOSE d \in 1..10 : Digits[d] = c) - 1

JsonWS == {" ", "\n", "\t", "\r"}

RECURSIVE SkipWS(_, _)
SkipWS(t, i) ==
    IF i <= Len(t) /\ t[i] \in JsonWS THEN SkipWS(t, i + 1) ELSE i

\* result of a parse step: ok, the value, and the index after it
POk(v, i) == [ok |-> TRUE, v |-> v, i |-> i]
PFail     == [ok |-> FALSE, v |-> JNull, i |-> 0]

\* a string literal starting at the opening quote t[i]; no escapes, and a
\* raw control character inside a string is an error (strict mode)
RECURSIVE ScanString(_, _, _)
ScanString(t, i, acc) ==
    IF i > Len(t) THEN PFail
    ELSE IF t[i] = "\"" THEN POk(JStr(acc), i + 1)
    ELSE IF t[i] \in {"\n", "\t", "\r", "\\"} THEN PFail
    ELSE ScanString(t, i + 1, Append(acc, t[i]))

\* an integer literal: 0 or a non-zero digit followed by digits
RECURSIVE ScanDigits(_, _, _)
ScanDigits(t, i, acc) ==
    IF i <= Len(t) /\ IsDigit(t[i])
    THEN ScanDigits(t, i + 1, acc * 10 + DigitVal(t[i]))
    ELSE POk(JNum(acc), i)

ScanNumber(t, i) ==
    IF t[i] = "0" THEN POk(JNum(0), i + 1) ELSE ScanDigits(t, i, 0)

LitTrue  == <<"t", "r", "u", "e">>
LitFalse == <<"f", "a", "l", "s", "e">>
LitNull  == <<"n", "u", "l", "l">>

RECURSIVE ParseValue(_, _)
RECURSIVE ParseMembers(_, _, _)
RECURSIVE ParseElements(_, _, _)

\* the value starting at t[i] (whitespace already skipped)
ParseValue(t, i) ==
    IF i > Len(t) THEN PFail
    ELSE IF t[i] = "{" THEN
        LET j == SkipWS(t, i + 1) IN
        IF j <= Len(t) /\ t[j] = "}" THEN POk(EmptyDict, j + 1)
        ELSE ParseMembers(t, j, <<>>)
    ELSE IF t[i] = "[" THEN
        LET j == SkipWS(t, i + 1) IN
        IF j <= Len(t) /\ t[j] = "]" THEN POk(JArr(<<>>), j + 1)
        ELSE ParseElements(t, j, <<>>)
    ELSE IF t[i] = "\"" THEN ScanString(t, i + 1, <<>>)
    ELSE IF IsDigit(t[i]) THEN ScanNumber(t, i)
    ELSE IF MatchAt(t, i, LitTrue) THEN POk(JBool(TRUE), i + 4)
    ELSE IF MatchAt(t, i, LitFalse) THEN POk(JBool(FALSE), i + 5)
    ELSE IF MatchAt(t, i, LitNull) THEN POk(JNull, i + 4)
    ELSE PFail

\* members of an object: t[i] is at the first key; a repeated key keeps the
\* last value
ParseMembers(t, i, acc) ==
    IF i > Len(t) \/ t[i] # "\"" THEN PFail
    ELSE LET k == ScanString(t, i + 1, <<>>) IN
    IF ~k.ok THEN PFail
    ELSE LET c == SkipWS(t, k.i) IN
    IF c > Len(t) \/ t[c] # ":" THEN PFail
    ELSE LET v == ParseValue(t, SkipWS(t, c + 1)) IN
    IF ~v.ok THEN PFail
    ELSE LET acc2 == [x \in (DOMAIN acc) \cup {k.v.s} |->
                        IF x = k.v.s THEN v.v ELSE acc[x]]
             e == SkipWS(t, v.i) IN
    IF e > Len(t) THEN PFail
    ELSE IF t[e] = "}" THEN POk(JObj(acc2), e + 1)
    ELSE IF t[e] = "," THEN ParseMembers(t, SkipWS(t, e + 1), acc2)
    ELSE PFail

ParseElements(t, i, acc) ==
    LET v == ParseValue(t, i) IN
    IF ~v.ok THEN PFail
    ELSE LET acc2 == Append(acc, v.v)
             e == SkipWS(t, v.i) IN
    IF e > Len(t) THEN PFail
    ELSE IF t[e] = "]" THEN POk(JArr(acc2), e + 1)
    ELSE IF t[e] = "," THEN ParseElements(t, SkipWS(t, e + 1), acc2)
    ELSE PFail

\* json.loads(t): ok is FALSE where Python raises JSONDecodeError
JsonLoads(t) ==
    LET v == ParseValue(t, SkipWS(t, 1)) IN
    IF ~v.ok THEN PFail
    ELSE IF SkipWS(t, v.i) # Len(t) + 1 THEN PFail
    ELSE v

(***************************************************************************)
(* json.dumps(obj, ensure_ascii=False, indent=2).  The key order of a      *)
(* Python dict is its insertion order; the model's dicts are unordered, so *)
(* the members are written in one fixed order.  json.loads of the result   *)
(* does not depend on that order.                                          *)
(***************************************************************************)
RECURSIVE IntToText(_)
IntToText(n) ==
    IF n < 10 THEN <<Digits[n + 1]>>
    ELSE IntToText(n \div 10) \o <<Digits[(n % 10) + 1]>>

RECURSIVE Spaces(_)
Spaces(n) == IF n <= 0 THEN <<>> ELSE <<" ">> \o Spaces(n - 1)

Quoted(s) == <<"\"">> \o s \o <<"\"">>

RECURSIVE DumpValue(_, _)
RECURSIVE DumpItems(_, _, _)
RECURSIVE DumpMembers(_, _, _)

DumpValue(v, level) ==
    IF v.t = "null" THEN LitNull
    ELSE IF v.t = "bool" THEN (IF v.b THEN LitTrue ELSE LitFalse)
    ELSE IF v.t = "num" THEN IntToText(v.n)
    ELSE IF v.t = "str" THEN Quoted(v.s)
    ELSE IF v.t = "arr" THEN
        IF v.a = <<>> THEN <<"[", "]">>
        ELSE <<"[">> \o NL \o DumpItems(v.a, 1, level + 1)
                     \o NL \o Spaces(2 * level) \o <<"]">>
    ELSE
        IF DOMAIN v.o = {} THEN <<"{", "}">>
        ELSE <<"{">> \o NL \o DumpMembers(v.o, DOMAIN v.o, level + 1)
                     \o NL \o Spaces(2 * level) \o <<"}">>

DumpItems(a, i, level) ==
    Spaces(2 * level) \o DumpValue(a[i], level)
      \o (IF i = Len(a) THEN <<>>
          ELSE <<",">> \o NL \o DumpItems(a, i + 1, level))

DumpMembers(o, keys, level) ==
    LET k == CHOOSE x \in keys : TRUE IN
    Spaces(2 * level) \o Quoted(k) \o <<":", " ">> \o DumpValue(o[k], level)
      \o (IF keys = {k} THEN <<>>
          ELSE <<",">> \o NL \o DumpMembers(o, keys \ {k}, level))

JsonDumps(v) == DumpValue(v, 0)

(***************************************************************************)
(* engine/guardrails.py                                                    *)
(***************************************************************************)
\* GuardrailError messages (the formatted limit is left out of the text)
ErrEmpty     == "STATE_DELTA is empty"
ErrTooLarge  == "STATE_DELTA too large (> max_chars chars)"
ErrParse     == "STATE_DELTA JSON parse failed"
ErrNotObject == "STATE_DELTA must be a JSON object"
ErrTooDeep   == "STATE_DELTA nested too deep (> max_depth)"

DefaultMaxChars == 8000
DefaultMaxDepth == 8

GuardOk(obj)   == [ok |-> TRUE, obj |-> obj, err |-> ""]
GuardError(e)  == [ok |-> FALSE, obj |-> EmptyDict, err |-> e]

\* _check(v, depth): "" when v passes, otherwise the message of the first
\* violation.  Keys of a json.loads result are always str and its values
\* are always of a supported type, so the depth check is the only one that
\* can fire.
RECURSIVE Check(_, _, _)

\* variant: only the value itself is looked at, not what it holds
Check_top_only(v, depth, max_depth) ==
    IF depth > max_depth THEN ErrTooDeep ELSE ""

Check(v, depth, max_depth) ==
    IF depth > max_depth THEN ErrTooDeep
    ELSE IF v.t \in {"null", "bool", "num", "str"} THEN ""
    ELSE IF IsList(v) THEN
        LET errs == {Check(v.a[i], depth + 1, max_depth) : i \in 1..Len(v.a)} \ {""}
        IN IF errs = {} THEN "" ELSE CHOOSE e \in errs : TRUE
    ELSE
        LET errs == {Check(v.o[k], depth + 1, max_depth) : k \in DOMAIN v.o} \ {""}
        IN IF errs = {} THEN "" ELSE CHOOSE e \in errs : TRUE

\* variant: a text of max_chars characters is already too large
validate_state_delta_json_below(delta_json_text, max_chars, max_depth) ==
    LET t == Strip(delta_json_text) IN
    IF t = <<>> THEN GuardError(ErrEmpty)
    ELSE IF Len(t) >= max_chars THEN GuardError(ErrTooLarge)
    ELSE LET p == JsonLoads(t) IN
         IF ~p.ok THEN GuardError(ErrParse)
         ELSE IF ~IsDict(p.v) THEN GuardError(ErrNotObject)
         ELSE LET c == Check(p.v, 1, max_depth) IN
              IF c # "" THEN GuardError(c) ELSE GuardOk(p.v)

validate_state_delta_json(delta_json_text, max_chars, max_depth) ==
    LET t == Strip(delta_json_text) IN
    IF t = <<>> THEN GuardError(ErrEmpty)
    ELSE IF Len(t) > max_chars THEN GuardError(ErrTooLarge)
    ELSE LET p == JsonLoads(t) IN
         IF ~p.ok THEN GuardError(ErrParse)
         ELSE IF ~IsDict(p.v) THEN GuardError(ErrNotObject)
         ELSE LET c == Check(p.v, 1, max_depth) IN
              IF c # "" THEN GuardError(c) ELSE GuardOk(p.v)

(***************************************************************************)
(* web/routes/character.py: _deep_merge                                    *)
(***************************************************************************)
RECURSIVE deep_merge(_, _)

\* variant: a one-level update, the delta's values replace the base's
deep_merge_shallow(base, delta) ==
    IF IsDict(base) /\ IsDict(delta) THEN
        JObj([k \in (DOMAIN base.o) \cup (DOMAIN delta.o) |->
                IF k \in DOMAIN delta.o THEN delta.o[k] ELSE base.o[k]])
    ELSE delta

\* variant: two lists are joined instead of replaced
RECURSIVE deep_merge_joining_lists(_, _)
deep_merge_joining_lists(base, delta) ==
    IF IsDict(base) /\ IsDict(delta) THEN
        JObj([k \in (DOMAIN base.o) \cup (DOMAIN delta.o) |->
                IF k \in DOMAIN delta.o
                THEN IF k \in DOMAIN base.o
                     THEN deep_merge_joining_lists(base.o[k], delta.o[k])
                     ELSE delta.o[k]
                ELSE base.o[k]])
    ELSE IF IsList(base) /\ IsList(delta) THEN JArr(base.a \o delta.a)
    ELSE delta

deep_merge(base, delta) ==
    IF IsDict(base) /\ IsDict(delta) THEN
        JObj([k \in (DOMAIN base.o) \cup (DOMAIN delta.o) |->
                IF k \in DOMAIN delta.o
                THEN IF k \in DOMAIN base.o
                     THEN deep_merge(base.o[k], delta.o[k])
                     ELSE delta.o[k]
                ELSE base.o[k]])
    ELSE delta

(***************************************************************************)
(* engine/parser.py                                                        *)
(***************************************************************************)
KeyNarration     == <<"=", "=", "=", "N", "A", "R", "R", "A", "T", "I", "O", "N", "=", "=", "=">>
KeyChoices       == <<"=", "=", "=", "C", "H", "O", "I", "C", "E", "S", "=", "=", "=">>
KeyDmNotes       == <<"=", "=", "=", "D", "M", "_", "N", "O", "T", "E", "S", "=", "=", "=">>
KeyMemory        == <<"=", "=", "=", "M", "E", "M", "O", "R", "Y", "=", "=", "=">>
KeyStateDelta    == <<"=", "=", "=", "S", "T", "A", "T", "E", "_", "D", "E", "L", "T", "A", "=", "=", "=">>
KeyThreadUpdates == <<"=", "=", "=", "T", "H", "R", "E", "A", "D", "_", "U", "P", "D", "A", "T", "E", "S", "=", "=", "=">>

\* keys: marker line -> field name, "" for a line that is no marker
MarkerField(line) ==
    IF line = KeyNarration THEN "narration"
    ELSE IF line = KeyChoices THEN "choices"
    ELSE IF line = KeyDmNotes THEN "dm_notes"
    ELSE IF line = KeyMemory THEN "memory_suggestions"
    ELSE IF line = KeyStateDelta THEN "state_delta_json"
    ELSE IF line = KeyThreadUpdates THEN "thread_updates_json"
    ELSE ""

FieldNames == {"narration", "choices", "dm_notes", "memory_suggestions",
               "state_delta_json", "thread_updates_json"}

DMStructuredResponse(narration, choices, dm_notes, memory_suggestions, state_delta_json, thread_updates_json) ==
    [narration |-> narration, choices |-> choices, dm_notes |-> dm_notes,
     memory_suggestions |-> memory_suggestions,
     state_delta_json |-> state_delta_json,
     thread_updates_json |-> thread_updates_json]

\* s.lstrip(cs) for a set of characters cs
RECURSIVE LStripChars(_, _)
LStripChars(t, cs) ==
    IF t = <<>> THEN <<>>
    ELSE IF Head(t) \in cs THEN LStripChars(Tail(t), cs) ELSE t

DigitSet == {Digits[d] : d \in 1..10}

\* the scan of _parse_by_delimiters: st = [current, found_any, buf]
RECURSIVE ScanMarkers(_, _, _)
ScanMarkers(lines, i, st) ==
    IF i > Len(lines) THEN st
    ELSE LET f == MarkerField(Strip(lines[i])) IN
         IF f # "" THEN
             ScanMarkers(lines, i + 1, [st EXCEPT !.current = f, !.found_any = TRUE])
         ELSE IF st.current = "" THEN ScanMarkers(lines, i + 1, st)
         ELSE ScanMarkers(lines, i + 1,
                 [st EXCEPT !.buf[st.current] = Append(@, lines[i])])

\* one line of the choices block of the strict protocol: <<>> when dropped
StrictChoice(line) ==
    LET s0 == Strip(line)
        s1 == IF s0 # <<>> /\ Head(s0) = "-"
              THEN Strip(LStripChars(s0, {"-"})) ELSE s0
        s2 == IF Len(s1) >= 2 /\ IsDigit(s1[1])
              THEN Strip(LStripChars(LStripChars(LStripChars(s1, DigitSet), {"."}), {")"}))
              ELSE s1
    IN IF s0 = <<>> THEN <<>>
       ELSE IF s2 # <<>> THEN s2 ELSE s1

RECURSIVE StrictChoices(_, _)
StrictChoices(lines, i) ==
    IF i > Len(lines) THEN <<>>
    ELSE LET c == StrictChoice(lines[i]) IN
         (IF c = <<>> THEN <<>> ELSE <<c>>) \o StrictChoices(lines, i + 1)

\* _parse_by_delimiters(src): [found |-> FALSE] stands for None
parse_by_delimiters(src) ==
    LET st == ScanMarkers(SplitLines(src), 1,
                 [current |-> "", found_any |-> FALSE,
                  buf |-> [f \in FieldNames |-> <<>>]])
        block(f) == Strip(JoinLines(st.buf[f]))
    IN [found |-> st.found_any,
        dm |-> DMStructuredResponse(
                 block("narration"),
                 StrictChoices(SplitLines(block("choices")), 1),
                 block("dm_notes"),
                 block("memory_suggestions"),
                 block("state_delta_json"),
                 block("thread_updates_json"))]

UpperCase == <<"A", "B", "C", "D", "E", "F", "G", "H", "I", "J", "K", "L", "M", "N", "O", "P", "Q", "R", "S", "T", "U", "V", "W", "X", "Y", "Z">>
LowerCase == <<"a", "b", "c", "d", "e", "f", "g", "h", "i", "j", "k", "l", "m", "n", "o", "p", "q", "r", "s", "t", "u", "v", "w", "x", "y", "z">>

LowerChar(c) ==
    IF \E i \in 1..26 : UpperCase[i] = c
    THEN LowerCase[CHOOSE i \in 1..26 : UpperCase[i] = c]
    ELSE c

\* str.lower()
Lower(t) == [i \in 1..Len(t) |-> LowerChar(t[i])]

\* str.find(k): the 1-based index of the first occurrence, 0 for -1
RECURSIVE FindFrom(_, _, _)
FindFrom(t, k, i) ==
    IF i + Len(k) - 1 > Len(t) THEN 0
    ELSE IF SubSeq(t, i, i + Len(k) - 1) = k THEN i
    ELSE FindFrom(t, k, i + 1)

Find(t, k) == FindFrom(t, k, 1)
Contains(t, k) == Find(t, k) # 0

\* keyword synonyms of the fallback
W_choices   == <<"c", "h", "o", "i", "c", "e", "s">>
W_dm_notes  == <<"d", "m", "_", "n", "o", "t", "e", "s">>
W_dm_notes2 == <<"d", "m", " ", "n", "o", "t", "e", "s">>
W_narration == <<"n", "a", "r", "r", "a", "t", "i", "o", "n">>
W_memory    == <<"m", "e", "m", "o", "r", "y", "_", "s", "u", "g", "g", "e", "s", "t", "i", "o", "n", "s">>
W_memory2   == <<"m", "e", "m", "o", "r", "y", " ", "s", "u", "g", "g", "e", "s", "t", "i", "o", "n", "s">>
Zh_xuanxiang     == <<"zh_xuan", "zh_xiang">>
Zh_beizhu        == <<"zh_bei", "zh_zhu">>
Zh_xushi         == <<"zh_xu", "zh_shi">>
Zh_kexuan        == <<"zh_ke", "zh_xuan">>
Zh_kexuanxingdong == <<"zh_ke", "zh_xuan", "zh_xing", "zh_dong">>
Zh_dmbeizhu      == <<"d", "m", "zh_bei", "zh_zhu">>
Zh_jianyixieru   == <<"zh_jian", "zh_yi", "zh_xie", "zh_ru">>
Zh_juqingzhaiyao == <<"zh_ju", "zh_qing", "zh_zhai", "zh_yao", "zh_yao", "zh_dian">>

\* markers of _split_by_markers, in the order of the source
SplitMarkers ==
    << [key |-> "narration", keys |-> <<Zh_xushi, W_narration>>],
       [key |-> "choices", keys |-> <<W_choices, Zh_kexuanxingdong, Zh_xuanxiang>>],
       [key |-> "dm_notes", keys |-> <<W_dm_notes, W_dm_notes2, Zh_dmbeizhu, Zh_beizhu>>],
       [key |-> "memory_suggestions",
        keys |-> <<W_memory, W_memory2, Zh_jianyixieru, Zh_juqingzhaiyao>>] >>

\* index of the first keyword of the group found in src (the loop breaks at
\* the first keyword that occurs), 0 when none occurs
RECURSIVE FirstKeywordPos(_, _, _)
FirstKeywordPos(src, keys, j) ==
    IF j > Len(keys) THEN 0
    ELSE LET idx == Find(Lower(src), Lower(keys[j])) IN
         IF idx # 0 THEN idx ELSE FirstKeywordPos(src, keys, j + 1)

\* positions, before sorting: <<idx, key>> of every group that occurs
RECURSIVE MarkerPositions(_, _)
MarkerPositions(src, m) ==
    IF m > Len(SplitMarkers) THEN <<>>
    ELSE LET idx == FirstKeywordPos(src, SplitMarkers[m].keys, 1) IN
         (IF idx # 0 THEN << <<idx, SplitMarkers[m].key>> >> ELSE <<>>)
           \o MarkerPositions(src, m + 1)

\* list.sort(key=lambda x: x[0]): stable insertion of p into a sorted list
RECURSIVE InsertByPos(_, _)
InsertByPos(sorted, p) ==
    IF sorted = <<>> THEN <<p>>
    ELSE IF sorted[Len(sorted)][1] <= p[1] THEN Append(sorted, p)
    ELSE Append(InsertByPos(SubSeq(sorted, 1, Len(sorted) - 1), p), sorted[Len(sorted)])

RECURSIVE SortByPos(_, _)
SortByPos(ps, n) ==
    IF n = 0 THEN <<>> ELSE InsertByPos(SortByPos(ps, n - 1), ps[n])

\* chunks.get(key, default) of the dict built by _split_by_markers
ChunkOf(src, key, default) ==
    LET ps == MarkerPositions(src, 1)
        positions == SortByPos(ps, Len(ps))
    IN IF \E i \in 1..Len(positions) : positions[i][2] = key
       THEN LET i == CHOOSE x \in 1..Len(positions) : positions[x][2] = key
                end == IF i + 1 <= Len(positions) THEN positions[i + 1][1] - 1
                       ELSE Len(src)
            IN Strip(SubSeq(src, positions[i][1], end))
       ELSE default

\* one line of the choices block of the fallback: <<>> when dropped
FallbackChoice(line) ==
    LET s == Strip(LStripChars(LStripChars(Strip(line), {"-"}), {"*"})) IN
    IF s = <<>> THEN <<>>
    ELSE IF StartsWith(Lower(s), W_choices) \/ StartsWith(s, Zh_xuanxiang)
            \/ StartsWith(s, Zh_kexuan) THEN <<>>
    ELSE s

RECURSIVE FallbackChoices(_, _)
FallbackChoices(lines, i) ==
    IF i > Len(lines) THEN <<>>
    ELSE LET c == FallbackChoice(lines[i]) IN
         (IF c = <<>> THEN <<>> ELSE <<c>>) \o FallbackChoices(lines, i + 1)

\* variant: the text is taken as it comes, without text.strip()
parse_dm_text_unstripped(text) ==
    LET t == text
        parsed == parse_by_delimiters(t)
        lower == Lower(t)
    IN IF t = <<>> THEN DMStructuredResponse(<<>>, <<>>, <<>>, <<>>, <<>>, <<>>)
       ELSE IF parsed.found THEN parsed.dm
       ELSE IF ~Contains(lower, W_choices) /\ ~Contains(t, Zh_xuanxiang)
               /\ ~Contains(lower, W_dm_notes) /\ ~Contains(t, Zh_beizhu)
            THEN DMStructuredResponse(t, <<>>, <<>>, <<>>, <<>>, <<>>)
       ELSE DMStructuredResponse(
               Strip(ChunkOf(t, "narration", t)),
               FallbackChoices(SplitLines(Strip(ChunkOf(t, "choices", <<>>))), 1),
               Strip(ChunkOf(t, "dm_notes", <<>>)),
               Strip(ChunkOf(t, "memory_suggestions", <<>>)),
               <<>>, <<>>)

parse_dm_text(text) ==
    LET t == Strip(text)
        parsed == parse_by_delimiters(t)
        lower == Lower(t)
    IN IF t = <<>> THEN DMStructuredResponse(<<>>, <<>>, <<>>, <<>>, <<>>, <<>>)
       ELSE IF parsed.found THEN parsed.dm
       ELSE IF ~Contains(lower, W_choices) /\ ~Contains(t, Zh_xuanxiang)
               /\ ~Contains(lower, W_dm_notes) /\ ~Contains(t, Zh_beizhu)
            THEN DMStructuredResponse(t, <<>>, <<>>, <<>>, <<>>, <<>>)
       ELSE DMStructuredResponse(
               Strip(ChunkOf(t, "narration", t)),
               FallbackChoices(SplitLines(Strip(ChunkOf(t, "choices", <<>>))), 1),
               Strip(ChunkOf(t, "dm_notes", <<>>)),
               Strip(ChunkOf(t, "memory_suggestions", <<>>)),
               <<>>, <<>>)

(***************************************************************************)
(* The persistent store.  A table is the sequence of its rows in rowid     *)
(* order; d is one consistent view of all tables.                          *)
(***************************************************************************)
\* SQL NULL in an INTEGER column and in a TEXT column
NullInt  == -1
NullText == "NULL"

\* the sessions of the installation; both belong to the one campaign
SessionRows ==
    << [id |-> 1, campaign_id |-> 1, current_scene |-> <<"i", "n", "n">>],
       [id |-> 2, campaign_id |-> 1, current_scene |-> <<" ", "r", "o", "a", "d">>] >>

SessionIds == {SessionRows[i].id : i \in 1..Len(SessionRows)}

EmptyStore ==
    [sessions |-> SessionRows,
     turn_logs |-> <<>>,
     state_change_requests |-> <<>>,
     story_journal_entries |-> <<>>,
     session_summaries |-> <<>>,
     summaries_seq |-> 0,
     character_sheets |-> <<>>,
     world_bible_entries |-> <<>>,
     plot_threads |-> <<>>]

RowSet(rows) == {rows[i] : i \in 1..Len(rows)}

SetMax(S) == CHOOSE x \in S : \A y \in S : y <= x

(***************************************************************************)
(* db/repos/turn_logs.py                                                   *)
(***************************************************************************)
\* variant: the maximum is taken over the turns of every session
get_next_turn_index_any_session(d, session_id) ==
    LET idx == {r.turn_index : r \in RowSet(d.turn_logs)}
    IN (IF idx = {} THEN -1 ELSE SetMax(idx)) + 1

get_next_turn_index(d, session_id) ==
    LET idx == {r.turn_index : r \in {x \in RowSet(d.turn_logs) : x.session_id = session_id}}
    IN (IF idx = {} THEN -1 ELSE SetMax(idx)) + 1

\* db/schema.py: CREATE UNIQUE INDEX idx_turn_logs_unique_turn ON
\* turn_logs(session_id, turn_index); TRUE when a row with this pair may be
\* inserted
\* variant: the table has no such index
idx_turn_logs_unique_turn_dropped(d, session_id, turn_index) == TRUE

idx_turn_logs_unique_turn(d, session_id, turn_index) ==
    \A k \in 1..Len(d.turn_logs) :
        ~(d.turn_logs[k].session_id = session_id /\ d.turn_logs[k].turn_index = turn_index)

insert_turn_log(d, session_id, turn_index, player_text, dm_text, dice_events_json) ==
    [d EXCEPT !.turn_logs = Append(@,
        [id |-> Len(@) + 1, session_id |-> session_id, turn_index |-> turn_index,
         player_text |-> player_text, dm_text |-> dm_text,
         dice_events |-> dice_events_json])]

(***************************************************************************)
(* db/repos/state_change_requests.py                                       *)
(***************************************************************************)
create_request(d, session_id, turn_index, kind, delta_json_text) ==
    [d EXCEPT !.state_change_requests = Append(@,
        [id |-> Len(@) + 1, session_id |-> session_id, turn_index |-> turn_index,
         kind |-> kind, delta_json_text |-> delta_json_text,
         status |-> "pending", error_text |-> NullText])]

\* UPDATE ... WHERE id = ? AND session_id = ?; "error_text or None"
set_status(d, request_id, session_id, status, error_text) ==
    [d EXCEPT !.state_change_requests =
        [i \in 1..Len(@) |->
            IF @[i].id = request_id /\ @[i].session_id = session_id
            THEN [@[i] EXCEPT !.status = status,
                              !.error_text = IF error_text = "" THEN NullText
                                             ELSE error_text]
            ELSE @[i]]]

\* variant: WHERE id = ? alone
get_request_any_session(d, request_id, session_id) ==
    {r \in RowSet(d.state_change_requests) : r.id = request_id}

\* the matching rows: empty for None, otherwise one row (id is the key)
get_request(d, request_id, session_id) ==
    {r \in RowSet(d.state_change_requests) :
        r.id = request_id /\ r.session_id = session_id}

(***************************************************************************)
(* db/repos/story_journal.py, db/repos/sessions.py                         *)
(***************************************************************************)
\* the parameters of insert_story_journal_entry
insert_story_journal_entry_params ==
    {"conn", "session_id", "scene_id", "summary", "open_threads", "key_facts"}

\* the INSERT names no turn_index column, so the column stays NULL
insert_story_journal_entry(d, session_id, scene_id, summary) ==
    [d EXCEPT !.story_journal_entries = Append(@,
        [id |-> Len(@) + 1, session_id |-> session_id, turn_index |-> NullInt,
         scene_id |-> scene_id, summary |-> summary])]

get_session_scene_id(d, session_id) ==
    LET rows == {r \in RowSet(d.sessions) : r.id = session_id} IN
    IF rows = {} THEN <<>>
    ELSE Strip((CHOOSE r \in rows : TRUE).current_scene)

(***************************************************************************)
(* db/repos/summaries.py                                                   *)
(***************************************************************************)
ChapterRows(d, session_id) ==
    SelectSeq(d.session_summaries,
              LAMBDA r : r.session_id = session_id /\ r.level = "chapter")

\* variant: MIN(end_turn) for MAX(end_turn)
get_chapter_rollup_progress_first(d, session_id) ==
    LET ends == {r.end_turn : r \in RowSet(ChapterRows(d, session_id))}
    IN IF ends = {} THEN -1 ELSE CHOOSE x \in ends : \A y \in ends : x <= y

get_chapter_rollup_progress(d, session_id) ==
    LET ends == {r.end_turn : r \in RowSet(ChapterRows(d, session_id))}
    IN IF ends = {} THEN -1 ELSE SetMax(ends)

insert_summary(d, session_id, level, start_turn, end_turn, summary) ==
    [d EXCEPT !.summaries_seq = @ + 1,
              !.session_summaries = Append(@,
        [id |-> d.summaries_seq + 1, session_id |-> session_id, level |-> level,
         start_turn |-> start_turn, end_turn |-> end_turn, summary |-> summary])]

\* variant: the DELETE has no session in its WHERE
delete_campaign_summaries_every_session(d, session_id) ==
    [d EXCEPT !.session_summaries = SelectSeq(@, LAMBDA r : r.level # "campaign")]

\* variant: the DELETE matches no row
delete_campaign_summaries_none(d, session_id) == d

delete_campaign_summaries(d, session_id) ==
    [d EXCEPT !.session_summaries =
        SelectSeq(@, LAMBDA r : ~(r.session_id = session_id /\ r.level = "campaign"))]

\* ORDER BY start_turn ASC (rows of equal start_turn stay in rowid order):
\* the row at place k is the one with k - 1 rows before it
SortByStart(rows, n) ==
    LET Before(i, j) == \/ rows[i].start_turn < rows[j].start_turn
                        \/ rows[i].start_turn = rows[j].start_turn /\ i < j
        place == [i \in 1..n |-> Cardinality({j \in 1..n : Before(j, i)}) + 1]
    IN IF \A i \in 1..(n - 1) : rows[i].start_turn <= rows[i + 1].start_turn
       THEN SubSeq(rows, 1, n)
       ELSE [k \in 1..n |-> rows[CHOOSE i \in 1..n : place[i] = k]]

list_chapter_summaries(d, session_id, limit) ==
    LET rows == SortByStart(ChapterRows(d, session_id), Len(ChapterRows(d, session_id)))
    IN SubSeq(rows, 1, IF Len(rows) < limit THEN Len(rows) ELSE limit)

(***************************************************************************)
(* db/repos/character_sheets.py                                            *)
(***************************************************************************)
get_character_sheet(d, session_id) ==
    LET rows == {r \in RowSet(d.character_sheets) : r.session_id = session_id} IN
    IF rows = {} THEN <<>> ELSE (CHOOSE r \in rows : TRUE).json_text

\* INSERT ... ON CONFLICT(session_id) DO UPDATE
upsert_character_sheet(d, session_id, json_text) ==
    IF \E r \in RowSet(d.character_sheets) : r.session_id = session_id
    THEN [d EXCEPT !.character_sheets =
            [i \in 1..Len(@) |-> IF @[i].session_id = session_id
                                 THEN [@[i] EXCEPT !.json_text = json_text]
                                 ELSE @[i]]]
    ELSE [d EXCEPT !.character_sheets =
            Append(@, [session_id |-> session_id, json_text |-> json_text])]

(***************************************************************************)
(* engine/orchestrator.py: the rollup                                      *)
(***************************************************************************)
RECENT_BUFFER == 12
CHAPTER_CHUNK == 20
CHAPTER_MAX_CHARS == 1200
CAMPAIGN_MAX_CHARS == 1500
CAMPAIGN_REGEN_CHAPTERS == 3
\* limit= of the chapter list the campaign summary is built from
ChapterListLimit == 200

Ellipsis    == <<"hellip">>
EmptyMarker == <<"zh_lparen", "zh_kong", "zh_rparen">>

\* variant: the cut keeps max_chars characters before the ellipsis
truncate_keeping_max(text, max_chars) ==
    LET t == Strip(text) IN
    IF Len(t) <= max_chars THEN t
    ELSE RStrip(SubSeq(t, 1, max_chars)) \o Ellipsis

truncate(text, max_chars) ==
    LET t == Strip(text) IN
    IF Len(t) <= max_chars THEN t
    ELSE RStrip(SubSeq(t, 1, max_chars - 1)) \o Ellipsis

\* variant: no ORDER BY, the rows come in rowid order
SortByTurn_rowid(rows, n) == SubSeq(rows, 1, n)

\* ORDER BY turn_index ASC, id ASC: the row at place k is the one with
\* k - 1 rows before it
SortByTurn(rows, n) ==
    LET Before(i, j) == \/ rows[i].turn_index < rows[j].turn_index
                        \/ rows[i].turn_index = rows[j].turn_index /\ i < j
        place == [i \in 1..n |-> Cardinality({j \in 1..n : Before(j, i)}) + 1]
    IN IF \A i \in 1..(n - 1) : rows[i].turn_index <= rows[i + 1].turn_index
       THEN SubSeq(rows, 1, n)
       ELSE [k \in 1..n |-> rows[CHOOSE i \in 1..n : place[i] = k]]

\* variant: the range excludes its first turn
JournalRange_after_start(d, session_id, start_turn, end_turn) ==
    LET rows == SelectSeq(d.story_journal_entries,
                   LAMBDA r : /\ r.session_id = session_id
                              /\ r.turn_index # NullInt
                              /\ r.turn_index > start_turn
                              /\ r.turn_index <= end_turn)
    IN SortByTurn(rows, Len(rows))

\* the journal rows of the session with start <= turn_index <= end
JournalRange(d, session_id, start_turn, end_turn) ==
    LET rows == SelectSeq(d.story_journal_entries,
                   LAMBDA r : /\ r.session_id = session_id
                              /\ r.turn_index # NullInt
                              /\ r.turn_index >= start_turn
                              /\ r.turn_index <= end_turn)
    IN SortByTurn(rows, Len(rows))

\* the stripped, non-empty summaries of the rows, one per line
RECURSIVE SummaryLines(_, _)
SummaryLines(rows, i) ==
    IF i > Len(rows) THEN <<>>
    ELSE (IF Strip(rows[i].summary) # <<>> THEN <<Strip(rows[i].summary)>> ELSE <<>>)
           \o SummaryLines(rows, i + 1)

\* f"[{start}-{end}]\n{summary}"
ChapterBlock(c) ==
    <<"[">> \o IntToText(c.start_turn) \o <<"-">> \o IntToText(c.end_turn)
      \o <<"]">> \o NL \o c.summary

\* "\n\n".join(blocks of chapters[i..j]), joined by halves
RECURSIVE MergedRange(_, _, _)
MergedRange(chapters, i, j) ==
    IF i > j THEN <<>>
    ELSE IF i = j THEN ChapterBlock(chapters[i])
    ELSE MergedRange(chapters, i, (i + j) \div 2) \o NL \o NL
           \o MergedRange(chapters, (i + j) \div 2 + 1, j)

MergedChapters(chapters, i) == MergedRange(chapters, i, Len(chapters))

OrEmptyMarker(t) == IF t = <<>> THEN EmptyMarker ELSE t

regenerate_campaign(d, session_id) ==
    LET chapters == list_chapter_summaries(d, session_id, ChapterListLimit) IN
    IF Len(chapters) < CAMPAIGN_REGEN_CHAPTERS THEN d
    ELSE LET merged == Strip(MergedChapters(chapters, 1))
             campaign_text == OrEmptyMarker(truncate(merged, CAMPAIGN_MAX_CHARS))
             latest_end == SetMax({chapters[i].end_turn : i \in 1..Len(chapters)})
         IN insert_summary(delete_campaign_summaries(d, session_id),
                           session_id, "campaign", 0, latest_end, campaign_text)

\* variant: the window reaches up to the current turn
maybe_rollup_summaries_no_buffer(d, session_id, current_turn_index) ==
    LET progress_end == get_chapter_rollup_progress(d, session_id)
        start_turn == progress_end + 1
        end_limit == IF current_turn_index > -1 THEN current_turn_index ELSE -1
        rows == JournalRange(d, session_id, start_turn, end_limit)
    IN IF end_limit < start_turn THEN d
       ELSE IF Len(rows) < CHAPTER_CHUNK THEN d
       ELSE LET chunk_rows == SubSeq(rows, 1, CHAPTER_CHUNK)
                chunk_start == chunk_rows[1].turn_index
                chunk_end == chunk_rows[CHAPTER_CHUNK].turn_index
                chapter_text == OrEmptyMarker(
                    truncate(JoinLines(SummaryLines(chunk_rows, 1)), CHAPTER_MAX_CHARS))
            IN regenerate_campaign(
                 insert_summary(d, session_id, "chapter", chunk_start, chunk_end,
                                chapter_text),
                 session_id)

\* variant: the chapter is made of every row of the window
maybe_rollup_summaries_whole_window(d, session_id, current_turn_index) ==
    LET progress_end == get_chapter_rollup_progress(d, session_id)
        start_turn == progress_end + 1
        end_limit == IF current_turn_index - RECENT_BUFFER > -1
                     THEN current_turn_index - RECENT_BUFFER ELSE -1
        rows == JournalRange(d, session_id, start_turn, end_limit)
    IN IF end_limit < start_turn THEN d
       ELSE IF Len(rows) < CHAPTER_CHUNK THEN d
       ELSE LET chunk_start == rows[1].turn_index
                chunk_end == rows[Len(rows)].turn_index
                chapter_text == OrEmptyMarker(
                    truncate(JoinLines(SummaryLines(rows, 1)), CHAPTER_MAX_CHARS))
            IN regenerate_campaign(
                 insert_summary(d, session_id, "chapter", chunk_start, chunk_end,
                                chapter_text),
                 session_id)

\* variant: a run without a full chunk still regenerates the campaign summary
maybe_rollup_summaries_regenerating(d, session_id, current_turn_index) ==
    LET progress_end == get_chapter_rollup_progress(d, session_id)
        start_turn == progress_end + 1
        end_limit == IF current_turn_index - RECENT_BUFFER > -1
                     THEN current_turn_index - RECENT_BUFFER ELSE -1
        rows == JournalRange(d, session_id, start_turn, end_limit)
    IN IF end_limit < start_turn THEN d
       ELSE IF Len(rows) < CHAPTER_CHUNK THEN regenerate_campaign(d, session_id)
       ELSE LET chunk_rows == SubSeq(rows, 1, CHAPTER_CHUNK)
                chunk_start == chunk_rows[1].turn_index
                chunk_end == chunk_rows[CHAPTER_CHUNK].turn_index
                chapter_text == OrEmptyMarker(
                    truncate(JoinLines(SummaryLines(chunk_rows, 1)), CHAPTER_MAX_CHARS))
            IN regenerate_campaign(
                 insert_summary(d, session_id, "chapter", chunk_start, chunk_end,
                                chapter_text),
                 session_id)

maybe_rollup_summaries(d, session_id, current_turn_index) ==
    LET progress_end == get_chapter_rollup_progress(d, session_id)
        start_turn == progress_end + 1
        end_limit == IF current_turn_index - RECENT_BUFFER > -1
                     THEN current_turn_index - RECENT_BUFFER ELSE -1
        rows == JournalRange(d, session_id, start_turn, end_limit)
    IN IF end_limit < start_turn THEN d
       ELSE IF Len(rows) < CHAPTER_CHUNK THEN d
       ELSE LET chunk_rows == SubSeq(rows, 1, CHAPTER_CHUNK)
                chunk_start == chunk_rows[1].turn_index
                chunk_end == chunk_rows[CHAPTER_CHUNK].turn_index
                chapter_text == OrEmptyMarker(
                    truncate(JoinLines(SummaryLines(chunk_rows, 1)), CHAPTER_MAX_CHARS))
            IN regenerate_campaign(
                 insert_summary(d, session_id, "chapter", chunk_start, chunk_end,
                                chapter_text),
                 session_id)

(***************************************************************************)
(* engine/orchestrator.py: persist_turn                                    *)
(*                                                                         *)
(* The result is the view of the caller's connection after the call and    *)
(*   raised        "" when persist_turn returned, otherwise the exception  *)
(*   turn_index    the index allocated for the turn.                       *)
(* fault names the statement group at which the storage layer raises       *)
(* sqlite3.OperationalError ("none": nowhere); a group that executes no    *)
(* statement cannot fail.  The journal insert never reaches the storage    *)
(* layer: the call itself raises TypeError, see PersistJournalKeywords.    *)
(***************************************************************************)
Faults == {"none", "request", "rollup"}

\* the keyword arguments of the call of insert_story_journal_entry
PersistJournalKeywords == {"session_id", "scene_id", "summary", "turn_index"}

\* json.dumps([], ensure_ascii=False)
EmptyDiceEvents == <<"[", "]">>

\* variant: a request per section, blank or not
persist_requests_every_section(d, session_id, turn_index, dm_struct) ==
    create_request(
        create_request(d, session_id, turn_index, "state_delta",
                       Strip(dm_struct.state_delta_json)),
        session_id, turn_index, "thread_updates",
        Strip(dm_struct.thread_updates_json))

persist_requests(d, session_id, turn_index, dm_struct) ==
    LET d1 == IF Strip(dm_struct.state_delta_json) # <<>>
              THEN create_request(d, session_id, turn_index, "state_delta",
                                  Strip(dm_struct.state_delta_json))
              ELSE d
    IN IF Strip(dm_struct.thread_updates_json) # <<>>
       THEN create_request(d1, session_id, turn_index, "thread_updates",
                           Strip(dm_struct.thread_updates_json))
       ELSE d1

\* variant: a failure after the turn row is swallowed and the call returns
persist_turn_swallowing(d, session_id, player_text, dm_raw, dm_struct, fault) ==
    LET turn_index == get_next_turn_index(d, session_id)
        d1 == insert_turn_log(d, session_id, turn_index, player_text, dm_raw,
                              EmptyDiceEvents)
        d2 == persist_requests(d1, session_id, turn_index, dm_struct)
        mem == Strip(dm_struct.memory_suggestions)
        scene_id == get_session_scene_id(d2, session_id)
        d3 == IF mem # <<>>
              THEN insert_story_journal_entry(d2, session_id, scene_id, mem)
              ELSE d2
        d4 == maybe_rollup_summaries(d3, session_id, turn_index)
        Result(view, raised) ==
            [db |-> view, raised |-> raised, turn_index |-> turn_index]
    IN IF fault = "request" /\ d2 # d1 THEN Result(d1, "")
       ELSE IF mem # <<>> /\ ~(PersistJournalKeywords \subseteq insert_story_journal_entry_params)
            THEN Result(d2, "")
       ELSE IF fault = "rollup" THEN Result(d3, "")
       ELSE Result(d4, "")

\* persist_turn from the insert of the turn row on, turn_index being what
\* _next_turn_index returned; the insert fails on the unique index when the
\* store has a row of the session with that index
persist_turn_at(d, session_id, turn_index, player_text, dm_raw, dm_struct, fault) ==
    LET d1 == insert_turn_log(d, session_id, turn_index, player_text, dm_raw,
                              EmptyDiceEvents)
        d2 == persist_requests(d1, session_id, turn_index, dm_struct)
        mem == Strip(dm_struct.memory_suggestions)
        scene_id == get_session_scene_id(d2, session_id)
        d3 == IF mem # <<>>
              THEN insert_story_journal_entry(d2, session_id, scene_id, mem)
              ELSE d2
        d4 == maybe_rollup_summaries(d3, session_id, turn_index)
        Result(view, raised) ==
            [db |-> view, raised |-> raised, turn_index |-> turn_index]
    IN IF ~idx_turn_logs_unique_turn(d, session_id, turn_index)
       THEN Result(d, "IntegrityError")
       ELSE IF fault = "request" /\ d2 # d1 THEN Result(d1, "OperationalError")
       ELSE IF mem # <<>> /\ ~(PersistJournalKeywords \subseteq insert_story_journal_entry_params)
            THEN Result(d2, "TypeError")
       ELSE IF fault = "rollup" THEN Result(d3, "OperationalError")
       ELSE Result(d4, "")

persist_turn(d, session_id, player_text, dm_raw, dm_struct, fault) ==
    persist_turn_at(d, session_id, get_next_turn_index(d, session_id),
                    player_text, dm_raw, dm_struct, fault)

(***************************************************************************)
(* The unit of work of a connection (db/conn.py, which the handlers import *)
(* as get_connection): a handler works on its own view of the store;       *)
(* commit makes the view the stored state, close without commit discards   *)
(* it.                                                                     *)
(***************************************************************************)
Committed(stored, view) == view
Discarded(stored, view) == stored

(***************************************************************************)
(* config.py: api_config.ini, sections [llm], [app] and [memory]           *)
(*                                                                         *)
(* The file is what configparser keeps of it: for each section whether it  *)
(* is there, the options it has and their raw values.  Values are texts of *)
(* one line; a float is counted in tenths (12.5 is 125), None of an id is  *)
(* NoSession (ids start at 1).                                             *)
(***************************************************************************)
NoSession == 0

LlmKeys == {"provider", "base_url", "api_key", "model", "timeout_seconds"}
AppKeys == {"active_campaign_id", "active_session_id"}
MemoryKeys == {"history_turns_for_prompt", "story_journal_for_prompt"}

\* the names of the options as texts
OptionNames ==
    [provider |-> <<"p", "r", "o", "v", "i", "d", "e", "r">>,
     base_url |-> <<"b", "a", "s", "e", "_", "u", "r", "l">>,
     api_key |-> <<"a", "p", "i", "_", "k", "e", "y">>,
     model |-> <<"m", "o", "d", "e", "l">>,
     timeout_seconds |-> <<"t", "i", "m", "e", "o", "u", "t", "_", "s", "e", "c", "o", "n", "d", "s">>,
     active_campaign_id |-> <<"a", "c", "t", "i", "v", "e", "_", "c", "a", "m", "p", "a", "i", "g", "n", "_", "i", "d">>,
     active_session_id |-> <<"a", "c", "t", "i", "v", "e", "_", "s", "e", "s", "s", "i", "o", "n", "_", "i", "d">>,
     history_turns_for_prompt |-> <<"h", "i", "s", "t", "o", "r", "y", "_", "t", "u", "r", "n", "s", "_", "f", "o", "r", "_", "p", "r", "o", "m", "p", "t">>,
     story_journal_for_prompt |-> <<"s", "t", "o", "r", "y", "_", "j", "o", "u", "r", "n", "a", "l", "_", "f", "o", "r", "_", "p", "r", "o", "m", "p", "t">>]

Section(present, keys, opts) == [present |-> present, keys |-> keys, opts |-> opts]

NoSection(keys) == Section(FALSE, {}, [k \in keys |-> <<>>])

NoConfig ==
    [llm |-> NoSection(LlmKeys), app |-> NoSection(AppKeys), memory |-> NoSection(MemoryKeys)]

\* configparser, _KEYCRE = %\(([^)]+)\)s matched at the head of rest: the
\* place of its last character, 0 when it does not match
KeyRefEnd(rest) ==
    LET p == FindFrom(rest, <<")">>, 3) IN
    IF Len(rest) >= 2 /\ rest[1] = "%" /\ rest[2] = "(" /\ p >= 4 /\ p < Len(rest)
       /\ rest[p + 1] = "s"
    THEN p + 1 ELSE 0

\* value.replace("%%", "")
RECURSIVE RemoveDoubled(_)
RemoveDoubled(v) ==
    IF Len(v) < 2 THEN v
    ELSE IF v[1] = "%" /\ v[2] = "%" THEN RemoveDoubled(SubSeq(v, 3, Len(v)))
    ELSE <<v[1]>> \o RemoveDoubled(Tail(v))

\* _KEYCRE.sub("", value)
RECURSIVE RemoveKeyRefs(_)
RemoveKeyRefs(v) ==
    IF v = <<>> THEN <<>>
    ELSE IF KeyRefEnd(v) # 0 THEN RemoveKeyRefs(SubSeq(v, KeyRefEnd(v) + 1, Len(v)))
    ELSE <<v[1]>> \o RemoveKeyRefs(Tail(v))

\* BasicInterpolation.before_set raises ValueError for the value
before_set(value) ==
    value # <<>> /\ \E k \in 1..Len(RemoveKeyRefs(RemoveDoubled(value))) :
                        RemoveKeyRefs(RemoveDoubled(value))[k] = "%"

MAX_INTERPOLATION_DEPTH == 10

Got(raised, text) == [raised |-> raised, text |-> text]

\* BasicInterpolation._interpolate_some
RECURSIVE interpolate_some(_, _, _)
interpolate_some(rest, sec, depth) ==
    LET Then(head, more) == IF more.raised # "" THEN more ELSE Got("", head \o more.text) IN
    IF depth > MAX_INTERPOLATION_DEPTH THEN Got("InterpolationDepthError", <<>>)
    ELSE IF rest = <<>> THEN Got("", <<>>)
    ELSE IF rest[1] # "%" THEN Then(<<rest[1]>>, interpolate_some(Tail(rest), sec, depth))
    ELSE IF Len(rest) >= 2 /\ rest[2] = "%"
         THEN Then(<<"%">>, interpolate_some(SubSeq(rest, 3, Len(rest)), sec, depth))
    ELSE IF Len(rest) >= 2 /\ rest[2] = "(" /\ KeyRefEnd(rest) # 0
         THEN LET j == KeyRefEnd(rest)
                  var == Lower(SubSeq(rest, 3, j - 2))
                  found == {k \in sec.keys : OptionNames[k] = var}
              IN IF found = {} THEN Got("InterpolationMissingOptionError", <<>>)
                 ELSE LET v == sec.opts[CHOOSE k \in found : TRUE]
                          inner == IF \E i \in 1..Len(v) : v[i] = "%"
                                   THEN interpolate_some(v, sec, depth + 1)
                                   ELSE Got("", v)
                      IN IF inner.raised # "" THEN inner
                         ELSE Then(inner.text,
                                   interpolate_some(SubSeq(rest, j + 1, Len(rest)), sec, depth))
    ELSE Got("InterpolationSyntaxError", <<>>)

\* sec.get(key) or "": the empty text for a missing option
sec_get(sec, key) ==
    IF key \notin sec.keys THEN Got("", <<>>)
    ELSE interpolate_some(sec.opts[key], sec, 1)

\* cp[name] = opts and cp.write(f): refused before anything is written when
\* a value is refused; the file gives every value back stripped
set_section(cfg, name, opts) ==
    IF \E k \in DOMAIN opts : before_set(opts[k])
    THEN [cfg |-> cfg, raised |-> "ValueError"]
    ELSE [cfg |-> [cfg EXCEPT ![name] = Section(TRUE, DOMAIN opts,
                                              [k \in DOMAIN opts |-> Strip(opts[k])])],
          raised |-> ""]

\* str(n) of an int
str_int(n) == IF n < 0 THEN <<"-">> \o IntToText(-n) ELSE IntToText(n)

\* the value of a run of digits with single underscores between them, -1
\* when the text is no such run
RECURSIVE DigitsValue(_, _)
DigitsValue(t, acc) ==
    IF t = <<>> THEN acc
    ELSE IF IsDigit(t[1]) THEN DigitsValue(Tail(t), 10 * acc + DigitVal(t[1]))
    ELSE IF t[1] = "_" /\ Len(t) >= 2 /\ IsDigit(t[2]) THEN DigitsValue(Tail(t), acc)
    ELSE -1

\* int(raw): [ok |-> FALSE] for ValueError
ToInt(raw) ==
    LET t == Strip(raw)
        signed == t # <<>> /\ t[1] \in {"+", "-"}
        body == IF signed THEN Tail(t) ELSE t
        n == IF body # <<>> /\ IsDigit(body[1]) THEN DigitsValue(body, 0) ELSE -1
    IN IF n < 0 THEN [ok |-> FALSE, value |-> 0]
       ELSE [ok |-> TRUE, value |-> IF signed /\ t[1] = "-" THEN -n ELSE n]

\* str(x) of a float of tenths
str_float(x) == IntToText(x \div 10) \o <<".">> \o IntToText(x % 10)

\* float(raw) in tenths, for the texts "d", "d." and "d.d": [ok |-> FALSE]
\* for ValueError
ToFloat(raw) ==
    LET t == Strip(raw)
        dot == Find(t, <<".">>)
        whole == IF dot = 0 THEN t ELSE SubSeq(t, 1, dot - 1)
        frac == IF dot = 0 THEN <<>> ELSE SubSeq(t, dot + 1, Len(t))
        w == IF whole # <<>> /\ IsDigit(whole[1]) THEN DigitsValue(whole, 0) ELSE -1
    IN IF w < 0 \/ Len(frac) > 1 \/ (frac # <<>> /\ ~IsDigit(frac[1]))
       THEN [ok |-> FALSE, value |-> 0]
       ELSE [ok |-> TRUE, value |-> 10 * w + (IF frac = <<>> THEN 0 ELSE DigitVal(frac[1]))]

DefaultProvider == <<"o", "p", "e", "n", "a", "i", "_", "c", "o", "m", "p", "a", "t">>

DefaultTimeout == <<"6", "0">>

LLMConfig(base_url, api_key, model, timeout_seconds, provider) ==
    [base_url |-> base_url, api_key |-> api_key, model |-> model,
     timeout_seconds |-> timeout_seconds, provider |-> provider]

NoLLMConfig == LLMConfig(<<>>, <<>>, <<>>, 0, <<>>)

\* load_llm_config: found is FALSE for None, raised names the exception
\* that leaves the function
load_llm_config(cfg) ==
    LET sec == cfg.llm
        OrText(got, default) == IF got.text = <<>> THEN default ELSE got.text
        provider == sec_get(sec, "provider")
        base_url == sec_get(sec, "base_url")
        api_key == sec_get(sec, "api_key")
        model == sec_get(sec, "model")
        timeout == sec_get(sec, "timeout_seconds")
        timeout_seconds == ToFloat(OrText(timeout, DefaultTimeout))
        gets == <<provider, base_url, api_key, model, timeout>>
        None(raised) == [found |-> FALSE, raised |-> raised, value |-> NoLLMConfig]
    IN IF ~sec.present THEN None("")
       ELSE IF \E i \in 1..5 : gets[i].raised # ""
            THEN None(gets[CHOOSE i \in 1..5 : gets[i].raised # ""
                                              /\ \A j \in 1..(i - 1) : gets[j].raised = ""].raised)
       ELSE IF ~timeout_seconds.ok THEN None("ValueError")
       ELSE IF Strip(base_url.text) = <<>> \/ Strip(model.text) = <<>> THEN None("")
       ELSE [found |-> TRUE, raised |-> "",
             value |-> LLMConfig(Strip(base_url.text), Strip(api_key.text), Strip(model.text),
                                 timeout_seconds.value,
                                 IF Strip(OrText(provider, DefaultProvider)) = <<>>
                                 THEN DefaultProvider
                                 ELSE Strip(OrText(provider, DefaultProvider)))]

\* save_llm_config: [cfg, raised]
save_llm_config(cfg, llm) ==
    set_section(cfg, "llm",
        [provider |-> Strip(IF llm.provider = <<>> THEN DefaultProvider ELSE llm.provider),
         base_url |-> Strip(llm.base_url),
         api_key |-> Strip(llm.api_key),
         model |-> Strip(llm.model),
         timeout_seconds |-> str_float(llm.timeout_seconds)])

AppState(active_campaign_id, active_session_id) ==
    [active_campaign_id |-> active_campaign_id, active_session_id |-> active_session_id]

load_app_state(cfg) ==
    LET sec == cfg.app
        cid == sec_get(sec, "active_campaign_id")
        sid == sec_get(sec, "active_session_id")
        IdOf(got) == IF got.text = <<>> THEN [ok |-> TRUE, value |-> NoSession]
                     ELSE ToInt(got.text)
    IN IF ~sec.present THEN AppState(NoSession, NoSession)
       ELSE IF cid.raised # "" \/ sid.raised # "" \/ ~IdOf(cid).ok \/ ~IdOf(sid).ok
            THEN AppState(NoSession, NoSession)
       ELSE AppState(IdOf(cid).value, IdOf(sid).value)

save_app_state(cfg, state) ==
    set_section(cfg, "app",
        [active_campaign_id |-> IF state.active_campaign_id = NoSession THEN <<>>
                                ELSE str_int(state.active_campaign_id),
         active_session_id |-> IF state.active_session_id = NoSession THEN <<>>
                               ELSE str_int(state.active_session_id)]).cfg

HISTORY_TURNS_FOR_PROMPT == 6

STORY_JOURNAL_FOR_PROMPT == 12

MemoryConfig(history_turns_for_prompt, story_journal_for_prompt) ==
    [history_turns_for_prompt |-> history_turns_for_prompt,
     story_journal_for_prompt |-> story_journal_for_prompt]

\* load_memory_config._read_int: the exceptions of sec.get are not caught
read_int(sec, key, default) ==
    LET got == sec_get(sec, key) IN
    IF got.raised # "" THEN [raised |-> got.raised, value |-> default]
    ELSE IF Strip(got.text) = <<>> \/ ~ToInt(Strip(got.text)).ok
         THEN [raised |-> "", value |-> default]
    ELSE [raised |-> "", value |-> ToInt(Strip(got.text)).value]

\* load_memory_config: [raised, value]
load_memory_config(cfg) ==
    LET defaults == MemoryConfig(HISTORY_TURNS_FOR_PROMPT, STORY_JOURNAL_FOR_PROMPT)
        h == read_int(cfg.memory, "history_turns_for_prompt", defaults.history_turns_for_prompt)
        s == read_int(cfg.memory, "story_journal_for_prompt", defaults.story_journal_for_prompt)
    IN IF ~cfg.memory.present THEN [raised |-> "", value |-> defaults]
       ELSE IF h.raised # "" THEN [raised |-> h.raised, value |-> defaults]
       ELSE IF s.raised # "" THEN [raised |-> s.raised, value |-> defaults]
       ELSE [raised |-> "", value |-> MemoryConfig(h.value, s.value)]

\* web/routes/setup.py: [cfg, raised]
setup_post(cfg, base_url, api_key, model, timeout_seconds) ==
    save_llm_config(cfg, LLMConfig(Strip(base_url), Strip(api_key), Strip(model),
                                   timeout_seconds, DefaultProvider))

(***************************************************************************)
(* The queries behind the prompt: db/repos/turn_logs.py, story_journal.py, *)
(* summaries.py, world_bible.py and plot_threads.py.  A table is the       *)
(* sequence of its rows in rowid order.                                    *)
(***************************************************************************)
\* LIMIT n: the first n rows, every row for a negative n
Limit(rows, n) == IF n < 0 \/ Len(rows) <= n THEN rows ELSE SubSeq(rows, 1, n)

\* rows[::-1]
Reversed(rows) == [i \in 1..Len(rows) |-> rows[Len(rows) + 1 - i]]

\* the rows in the order Before, a strict total order of their places
Sorted(rows, Before(_, _)) ==
    LET place == [i \in 1..Len(rows) |->
                     Cardinality({j \in 1..Len(rows) : Before(j, i)}) + 1]
    IN [k \in 1..Len(rows) |-> rows[CHOOSE i \in 1..Len(rows) : place[i] = k]]

list_recent_turn_pairs(d, session_id, limit) ==
    IF limit <= 0 THEN <<>>
    ELSE LET rows == SelectSeq(d.turn_logs, LAMBDA r : r.session_id = session_id)
         IN Limit(Sorted(rows, LAMBDA i, j : rows[i].turn_index > rows[j].turn_index), limit)

\* ORDER BY id DESC LIMIT ?
select_story_journal_for_prompt(d, session_id, limit) ==
    Limit(Reversed(SelectSeq(d.story_journal_entries, LAMBDA r : r.session_id = session_id)),
          limit)

NoSummary == [found |-> FALSE, summary |-> <<>>]

\* ORDER BY end_turn DESC, id DESC LIMIT 1; found is FALSE for None
get_latest_summary(d, session_id, level) ==
    LET rows == SelectSeq(d.session_summaries,
                          LAMBDA r : r.session_id = session_id /\ r.level = level)
        First(i) == \A j \in 1..Len(rows) :
                        \/ rows[j].end_turn < rows[i].end_turn
                        \/ rows[j].end_turn = rows[i].end_turn /\ rows[j].id <= rows[i].id
    IN IF rows = <<>> THEN NoSummary
       ELSE [found |-> TRUE, summary |-> rows[CHOOSE i \in 1..Len(rows) : First(i)].summary]

\* text LIKE pat: % matches any run of characters, _ any one character, and
\* the letters A-Z match without case
RECURSIVE Like(_, _)
Like(text, pat) ==
    IF pat = <<>> THEN text = <<>>
    ELSE IF pat[1] = "%"
         THEN \E k \in 0..Len(text) : Like(SubSeq(text, k + 1, Len(text)), Tail(pat))
    ELSE /\ text # <<>>
         /\ (pat[1] = "_" \/ LowerChar(pat[1]) = LowerChar(text[1]))
         /\ Like(Tail(text), Tail(pat))

\* the orders SQLite may give rows of equal updated_at, which ORDER BY
\* updated_at DESC leaves open
TieOrders == {"rowid", "rowid_desc"}

\* tags is <<>> for None and for the empty list
select_world_bible_for_prompt(d, campaign_id, tags, limit, tie) ==
    LET Matches(r) == tags = <<>> \/ \E k \in 1..Len(tags) : Like(r.tags, <<"%">> \o tags[k] \o <<"%">>)
        rows == SelectSeq(d.world_bible_entries,
                          LAMBDA r : r.campaign_id = campaign_id /\ Matches(r))
        Before(i, j) == \/ rows[i].updated_at > rows[j].updated_at
                        \/ /\ rows[i].updated_at = rows[j].updated_at
                           /\ IF tie = "rowid" THEN i < j ELSE i > j
    IN Limit(Sorted(rows, Before), limit)

\* ORDER BY priority DESC, updated_at DESC, id DESC LIMIT ?
list_open_threads(d, session_id, limit) ==
    LET rows == SelectSeq(d.plot_threads,
                          LAMBDA r : r.session_id = session_id /\ r.status = "open")
        Before(i, j) == \/ rows[i].priority > rows[j].priority
                        \/ /\ rows[i].priority = rows[j].priority
                           /\ \/ rows[i].updated_at > rows[j].updated_at
                              \/ rows[i].updated_at = rows[j].updated_at /\ i > j
    IN Limit(Sorted(rows, Before), limit)

(***************************************************************************)
(* engine/prompt_builder.py and engine/orchestrator.py: the messages of a  *)
(* turn.  The fixed pieces of text (headings, labels) are one character    *)
(* each.                                                                   *)
(***************************************************************************)
ChatMessage(role, content) == [role |-> role, content |-> content]

RetrievedMemory(world_bible_blocks, story_blocks, plot_threads_blocks) ==
    [world_bible_blocks |-> world_bible_blocks, story_blocks |-> story_blocks,
     plot_threads_blocks |-> plot_threads_blocks]

\* the rules of the output protocol, from its first line to its last
SystemRules == <<"rules_first_line", "\n", "rules_more_lines", "\n", "rules_last_line">>

Blank2 == <<"\n", "\n">>

build_dm_messages(memory, state_block) ==
    LET OrText(t, default) == IF t = <<>> THEN default ELSE t
        world == OrText(JoinWith(memory.world_bible_blocks, Blank2), <<"no_world_entries">>)
        story == OrText(JoinWith(memory.story_blocks, Blank2), <<"no_story_blocks">>)
        threads == IF memory.plot_threads_blocks # <<>>
                   THEN Strip(JoinWith(memory.plot_threads_blocks, Blank2)) ELSE <<>>
        context == <<"heading_WorldBible", "\n">> \o world \o Blank2
                   \o <<"heading_PlotThreads", "\n">> \o OrText(threads, <<"no_open_threads">>)
                   \o Blank2
                   \o <<"heading_StoryJournal", "\n">> \o story \o Blank2
                   \o <<"heading_state", "\n">> \o state_block \o <<"\n">>
    IN <<ChatMessage("system", SystemRules), ChatMessage("system", context)>>

\* _fetch_world_bible, with the rows it read
fetch_world_bible(d, campaign_id, tags, limit, tie) ==
    LET rows == select_world_bible_for_prompt(d, campaign_id, tags, limit, tie)
    IN [rows |-> rows,
        blocks |-> [i \in 1..Len(rows) |->
                      <<"[">> \o rows[i].type \o <<"]", " ">> \o rows[i].title
                      \o <<"\n", "label_tags">> \o rows[i].tags \o <<"\n">> \o rows[i].content],
        preview |-> [i \in 1..Len(rows) |->
                      [type |-> rows[i].type, title |-> rows[i].title, tags |-> rows[i].tags]]]

\* a journal row as a block; open_threads and key_facts are never written
StoryBlock(r) ==
    <<"label_scene">> \o r.scene_id \o <<"\n", "label_summary">> \o r.summary
    \o <<"\n", "label_open_threads", "\n", "label_key_facts">>

fetch_story_journal(d, session_id, limit) ==
    LET rows == Reversed(select_story_journal_for_prompt(d, session_id, limit))
    IN [i \in 1..Len(rows) |-> StoryBlock(rows[i])]

\* the assistant message of a stored reply dm_text that was parsed as dm
AssistantMessage(dm, dm_text) ==
    LET choice_lines == [i \in 1..Len(dm.choices) |-> <<"-", " ">> \o dm.choices[i]]
        assistant_parts ==
            (IF dm.narration # <<>> THEN <<Strip(dm.narration)>> ELSE <<>>)
            \o (IF dm.choices # <<>>
                THEN <<<<"label_choices", "\n">> \o JoinLines(choice_lines)>> ELSE <<>>)
        assistant_content ==
            Strip(JoinWith(SelectSeq(assistant_parts, LAMBDA part : Strip(part) # <<>>), Blank2))
    IN IF assistant_content # <<>> THEN assistant_content ELSE dm_text

AssistantContent(dm_text) == AssistantMessage(parse_dm_text(dm_text), dm_text)

RECURSIVE TurnMessages(_, _)
TurnMessages(rows, i) ==
    IF i > Len(rows) THEN <<>>
    ELSE (IF Strip(rows[i].player_text) # <<>>
          THEN <<ChatMessage("user", Strip(rows[i].player_text))>> ELSE <<>>)
         \o (IF Strip(rows[i].dm_text) # <<>>
             THEN <<ChatMessage("assistant", AssistantContent(Strip(rows[i].dm_text)))>>
             ELSE <<>>)
         \o TurnMessages(rows, i + 1)

fetch_recent_turn_context(d, session_id, limit) ==
    IF limit <= 0 THEN <<>>
    ELSE TurnMessages(Reversed(list_recent_turn_pairs(d, session_id, limit)), 1)

\* an open thread as a block
ThreadBlock(t) ==
    Strip(JoinLines(<<<<"[", "P">> \o str_int(t.priority) \o <<"]", " ">> \o Strip(t.title)>>
                    \o (IF Strip(t.tags) # <<>> THEN <<<<"label_tags">> \o Strip(t.tags)>> ELSE <<>>)
                    \o (IF Strip(t.summary) # <<>> THEN <<<<"label_progress">> \o Strip(t.summary)>> ELSE <<>>)
                    \o (IF Strip(t.next_step) # <<>> THEN <<<<"label_next_step">> \o Strip(t.next_step)>>
                        ELSE <<>>)))

SummaryBlock(heading, sum) == <<heading, "\n">> \o Strip(sum.summary)

\* build_turn_messages_and_preview, lines 145-152: the story blocks
story_blocks(d, session_id, memory_cfg) ==
    LET campaign_sum == get_latest_summary(d, session_id, "campaign")
        chapter_sum == get_latest_summary(d, session_id, "chapter")
        journal == fetch_story_journal(d, session_id, memory_cfg.story_journal_for_prompt)
        with_campaign == IF campaign_sum.found /\ Strip(campaign_sum.summary) # <<>>
                         THEN <<SummaryBlock("heading_campaign_summary", campaign_sum)>> \o journal
                         ELSE journal
    IN IF chapter_sum.found /\ Strip(chapter_sum.summary) # <<>>
       THEN <<SummaryBlock("heading_chapter_summary", chapter_sum)>> \o with_campaign
       ELSE with_campaign

ThreadListLimit == 20

WorldBibleLimit == 10

\* variant: the player input is put before the recent turns
build_turn_messages_and_preview_input_first(d, campaign_id, session_id, player_text, state_block, tags, memory_cfg, tie) ==
    LET world == fetch_world_bible(d, campaign_id, tags, WorldBibleLimit, tie)
        open_threads == list_open_threads(d, session_id, ThreadListLimit)
        memory == RetrievedMemory(world.blocks, story_blocks(d, session_id, memory_cfg),
                                  [i \in 1..Len(open_threads) |-> ThreadBlock(open_threads[i])])
    IN [messages |-> build_dm_messages(memory, state_block)
                     \o <<ChatMessage("user", player_text)>>
                     \o fetch_recent_turn_context(d, session_id,
                                                  memory_cfg.history_turns_for_prompt),
        preview |-> world.preview]

build_turn_messages_and_preview(d, campaign_id, session_id, player_text, state_block, tags, memory_cfg, tie) ==
    LET world == fetch_world_bible(d, campaign_id, tags, WorldBibleLimit, tie)
        open_threads == list_open_threads(d, session_id, ThreadListLimit)
        memory == RetrievedMemory(world.blocks, story_blocks(d, session_id, memory_cfg),
                                  [i \in 1..Len(open_threads) |-> ThreadBlock(open_threads[i])])
    IN [messages |-> build_dm_messages(memory, state_block)
                     \o fetch_recent_turn_context(d, session_id,
                                                  memory_cfg.history_turns_for_prompt)
                     \o <<ChatMessage("user", player_text)>>,
        preview |-> world.preview]

(***************************************************************************)
(* web/routes/common.py: get_current_campaign_session                      *)
(***************************************************************************)
session_exists_under_campaign(d, session_id, campaign_id) ==
    \E r \in RowSet(d.sessions) : r.id = session_id /\ r.campaign_id = campaign_id

get_first_session_id(d, campaign_id) ==
    LET ids == {r.id : r \in {x \in RowSet(d.sessions) : x.campaign_id = campaign_id}}
    IN CHOOSE i \in ids : \A j \in ids : i <= j

\* the session the handler works on, and the [app] section afterwards
\* the session to work on when the stored state is state
current_or_first(d, cfg, state) ==
    IF state.active_session_id # NoSession
       /\ session_exists_under_campaign(d, state.active_session_id, 1)
    THEN [session_id |-> state.active_session_id, cfg |-> cfg]
    ELSE [session_id |-> get_first_session_id(d, 1),
          cfg |-> save_app_state(cfg, AppState(1, get_first_session_id(d, 1)))]

get_current_campaign_session(d, cfg) == current_or_first(d, cfg, load_app_state(cfg))

\* web/routes/saves.py
saves_session_select(d, cfg, session_id) ==
    save_app_state(get_current_campaign_session(d, cfg).cfg, AppState(1, session_id))

(***************************************************************************)
(* web/routes/game.py: game_turn                                           *)
(*   reply   the outcome of client.chat: [ok |-> TRUE, text |-> ...] or    *)
(*           [ok |-> FALSE, ...] for LLMClientError                        *)
(* The result gives the stored state and the configuration after the       *)
(* request, conn (the view of the handler's connection when it was         *)
(* closed) and the outcome.                                                *)
(***************************************************************************)
HandlerResult(d, cfg, conn_view, outcome) ==
    [db |-> d, cfg |-> cfg, conn |-> conn_view, outcome |-> outcome]

\* variant: the player's input is logged and committed before the model is
\* called
game_turn_log_first(d, cfg, session_id, player_text, reply, fault) ==
    IF ~load_llm_config(cfg).found THEN HandlerResult(d, cfg, d, "not_configured")
    ELSE LET cfg2 == save_app_state(cfg, AppState(1, session_id))
             logged == insert_turn_log(d, session_id,
                                       get_next_turn_index(d, session_id),
                                       player_text, <<>>, EmptyDiceEvents)
         IN
         IF ~reply.ok
         THEN HandlerResult(Committed(d, logged), cfg2, logged, "client_error")
         ELSE LET dm_struct == parse_dm_text(reply.text)
                  r == persist_turn(d, session_id, player_text, reply.text,
                                    dm_struct, fault)
              IN IF r.raised # ""
                 THEN HandlerResult(Discarded(d, r.db), cfg2, r.db, r.raised)
                 ELSE HandlerResult(Committed(d, r.db), cfg2, r.db, "ok")

game_turn(d, cfg, session_id, player_text, reply, fault) ==
    IF ~load_llm_config(cfg).found THEN HandlerResult(d, cfg, d, "not_configured")
    ELSE LET cfg2 == save_app_state(cfg, AppState(1, session_id)) IN
         IF ~reply.ok THEN HandlerResult(d, cfg2, d, "client_error")
         ELSE LET dm_struct == parse_dm_text(reply.text)
                  r == persist_turn(d, session_id, player_text, reply.text,
                                    dm_struct, fault)
              IN IF r.raised # ""
                 THEN HandlerResult(Discarded(d, r.db), cfg2, r.db, r.raised)
                 ELSE HandlerResult(Committed(d, r.db), cfg2, r.db, "ok")

(***************************************************************************)
(* web/routes/game.py: game_turn_stream, llm/client.py: chat_stream_sse    *)
(*                                                                         *)
(* The body of the response is the generator _gen.  It runs only while the *)
(* server asks it for the next chunk and is parked at a yield in between;  *)
(* closing it raises GeneratorExit at the yield where it is parked.  The   *)
(* model stream is the sequence of its server-sent events:                 *)
(*   [kind |-> "content", text |-> ...]  a data line with delta.content    *)
(*   [kind |-> "skip"]   a line chat_stream_sse passes over (no data:, no  *)
(*                       JSON, no or empty content)                        *)
(*   [kind |-> "done"]   data: [DONE]                                      *)
(* and fails_at is the number of events read when the request fails, -1    *)
(* when it does not.                                                       *)
(***************************************************************************)
ContentEvent(text) == [kind |-> "content", text |-> text]
SkipEvent == [kind |-> "skip", text |-> <<>>]
DoneEvent == [kind |-> "done", text |-> <<>>]

\* the place of the first "done" event after place pos, Len(events) + 1
\* when there is none: where chat_stream_sse stops reading
RECURSIVE StreamStop(_, _)
StreamStop(events, pos) ==
    IF pos >= Len(events) THEN Len(events) + 1
    ELSE IF events[pos + 1].kind = "done" THEN pos + 1
    ELSE StreamStop(events, pos + 1)

\* the place of the next event chat_stream_sse yields after place pos, 0
\* when it yields no more
RECURSIVE NextYield(_, _)
NextYield(events, pos) ==
    IF pos >= Len(events) \/ events[pos + 1].kind = "done" THEN 0
    ELSE IF events[pos + 1].kind = "content" /\ events[pos + 1].text # <<>>
         THEN pos + 1
    ELSE NextYield(events, pos + 1)

\* "".join(dm_parts)
RECURSIVE JoinParts(_)
JoinParts(parts) ==
    IF parts = <<>> THEN <<>> ELSE Head(parts) \o JoinParts(Tail(parts))

\* the position of the generator and what it has seen
StreamState(pc, outcome, session_id, events, fails_at, fault, pos, dm_parts, connected, gone_at) ==
    [op |-> "stream", pc |-> pc, outcome |-> outcome, session_id |-> session_id,
     events |-> events, fails_at |-> fails_at, fault |-> fault, pos |-> pos,
     dm_parts |-> dm_parts, connected |-> connected, gone_at |-> gone_at]

\* the handler up to the return of the StreamingResponse
game_turn_stream(cfg, session_id) ==
    IF ~load_llm_config(cfg).found THEN [cfg |-> cfg, outcome |-> "not_configured"]
    ELSE [cfg |-> save_app_state(cfg, AppState(1, session_id)), outcome |-> "streaming"]

\* variant: the text received so far is persisted when the generator is
\* closed
gen_close_persisting(d, view, session_id, player_text, dm_parts) ==
    LET r == persist_turn(view, session_id, player_text, JoinParts(dm_parts),
                          parse_dm_text(JoinParts(dm_parts)), "none")
    IN [db |-> IF r.raised # "" THEN Discarded(d, r.db) ELSE Committed(d, r.db),
        conn |-> r.db]

\* GeneratorExit at a yield: finally closes the connection, the handler
\* returns
gen_close(d, view, session_id, player_text, dm_parts) ==
    [db |-> Discarded(d, view), conn |-> view]

\* the generator after the last delta: join, parse, persist, commit
gen_finish(d, view, session_id, player_text, dm_parts, fault) ==
    LET dm_raw == JoinParts(dm_parts)
        r == persist_turn(view, session_id, player_text, dm_raw,
                          parse_dm_text(dm_raw), fault)
    IN IF r.raised # ""
       THEN [db |-> Discarded(d, r.db), conn |-> r.db, pc |-> "error",
             outcome |-> r.raised]
       ELSE [db |-> Committed(d, r.db), conn |-> r.db, pc |-> "final",
             outcome |-> "ok"]

(***************************************************************************)
(* web/routes/character.py                                                 *)
(***************************************************************************)
ErrUnsupportedKind == "auto-apply is not supported for this kind"

character_save(d, cfg, character_sheet) ==
    LET cur == get_current_campaign_session(d, cfg)
        view == upsert_character_sheet(d, cur.session_id, Strip(character_sheet))
    IN HandlerResult(Committed(d, view), cur.cfg, view, "saved")

\* the current sheet as an object: {} when there is none, it does not parse,
\* or it is not an object
load_base_obj(d, session_id) ==
    LET base_text == Strip(get_character_sheet(d, session_id))
        loaded == JsonLoads(base_text)
    IN IF base_text # <<>> /\ loaded.ok /\ IsDict(loaded.v) THEN loaded.v
       ELSE EmptyDict

\* variant: the kind of the request is not looked at
change_apply_any_kind(d, cfg, request_id) ==
    LET cur == get_current_campaign_session(d, cfg)
        session_id == cur.session_id
        found == get_request(d, request_id, session_id)
    IN IF found = {} THEN HandlerResult(d, cur.cfg, d, "not_found")
       ELSE LET req == CHOOSE r \in found : TRUE
                guard == validate_state_delta_json(Strip(req.delta_json_text),
                                                   DefaultMaxChars, DefaultMaxDepth)
            IN IF ~guard.ok THEN
                   LET view == set_status(d, request_id, session_id, "rejected",
                                          guard.err)
                   IN HandlerResult(Committed(d, view), cur.cfg, view, "rejected_invalid")
               ELSE
                   LET merged == deep_merge(load_base_obj(d, session_id), guard.obj)
                       view == set_status(
                                 upsert_character_sheet(d, session_id, JsonDumps(merged)),
                                 request_id, session_id, "applied", "")
                   IN HandlerResult(Committed(d, view), cur.cfg, view, "applied")

\* change_apply once the current session is known: cfg is the configuration
\* get_current_campaign_session left behind
apply_in_session(d, cfg, session_id, request_id) ==
    LET found == get_request(d, request_id, session_id)
    IN IF found = {} THEN HandlerResult(d, cfg, d, "not_found")
       ELSE LET req == CHOOSE r \in found : TRUE
                guard == validate_state_delta_json(Strip(req.delta_json_text),
                                                   DefaultMaxChars, DefaultMaxDepth)
            IN IF req.kind # "state_delta" THEN
                   LET view == set_status(d, request_id, session_id, "rejected",
                                          ErrUnsupportedKind)
                   IN HandlerResult(Committed(d, view), cfg, view, "rejected_kind")
               ELSE IF ~guard.ok THEN
                   LET view == set_status(d, request_id, session_id, "rejected",
                                          guard.err)
                   IN HandlerResult(Committed(d, view), cfg, view, "rejected_invalid")
               ELSE
                   LET merged == deep_merge(load_base_obj(d, session_id), guard.obj)
                       view == set_status(
                                 upsert_character_sheet(d, session_id, JsonDumps(merged)),
                                 request_id, session_id, "applied", "")
                   IN HandlerResult(Committed(d, view), cfg, view, "applied")

change_apply(d, cfg, request_id) ==
    apply_in_session(d, get_current_campaign_session(d, cfg).cfg,
                     get_current_campaign_session(d, cfg).session_id, request_id)

change_reject(d, cfg, request_id) ==
    LET cur == get_current_campaign_session(d, cfg)
        view == set_status(d, request_id, cur.session_id, "rejected", "")
    IN HandlerResult(Committed(d, view), cur.cfg, view, "rejected")

(***************************************************************************)
(* Inputs of the state machine.                                            *)
(***************************************************************************)
\* {"a":{"b":[2,3]},"d":4,"g":{"h":null}}
DeltaA == <<"{", "\"", "a", "\"", ":", "{", "\"", "b", "\"", ":", "[", "2", ",", "3", "]", "}", ",", "\"", "d", "\"", ":", "4", ",", "\"", "g", "\"", ":", "{", "\"", "h", "\"", ":", "n", "u", "l", "l", "}", "}">>
\* [1]: JSON, but no object
DeltaBad == <<"[", "1", "]">>
\* {"t":1}
ThreadU == <<"{", "\"", "t", "\"", ":", "1", "}">>
\* {"a":{"b":[1],"c":2},"d":{"e":1},"f":3,"g":5}
SheetS1 == <<"{", "\"", "a", "\"", ":", "{", "\"", "b", "\"", ":", "[", "1", "]", ",", "\"", "c", "\"", ":", "2", "}", ",", "\"", "d", "\"", ":", "{", "\"", "e", "\"", ":", "1", "}", ",", "\"", "f", "\"", ":", "3", ",", "\"", "g", "\"", ":", "5", "}">>
\* [7]: a sheet text that is JSON but no object
SheetS2 == <<" ", "[", "7", "]">>
\* character_sheets with a sheet saved for either session
SheetRows ==
    << [session_id |-> 1, json_text |-> Strip(SheetS1)],
       [session_id |-> 2, json_text |-> Strip(SheetS2)] >>

NarrationPart == KeyNarration \o NL \o <<"h", "i">> \o NL
MemoryText    == <<"m", "e", "t", " ", "x">>

\* model replies: strict protocol, with the optional sections blank or not
TxtNone  == <<"o", "k">> \o NL \o NarrationPart \o KeyStateDelta \o NL \o <<" ", " ">>
              \o NL \o KeyMemory \o NL
TxtSd    == NarrationPart \o KeyStateDelta \o NL \o DeltaA \o NL
TxtTu    == NarrationPart \o KeyThreadUpdates \o NL \o ThreadU
TxtBoth  == NarrationPart \o KeyStateDelta \o NL \o DeltaA \o NL
              \o KeyThreadUpdates \o NL \o ThreadU \o NL
TxtBad   == NarrationPart \o KeyStateDelta \o NL \o DeltaBad \o NL
              \o KeyThreadUpdates \o NL \o ThreadU
TxtMem   == NarrationPart \o KeyMemory \o NL \o MemoryText \o NL
TxtSdMem == NarrationPart \o KeyMemory \o NL \o MemoryText \o NL
              \o KeyStateDelta \o NL \o DeltaA

TurnTexts   == {TxtNone, TxtSd, TxtTu, TxtBoth, TxtMem, TxtSdMem}
\* session 2 is played with fewer of them
TurnTextsIn(session_id) ==
    IF session_id = 1 THEN TurnTexts ELSE {TxtNone, TxtBoth, TxtMem}
ChangeTexts == {TxtBoth, TxtBad}

PlayerText == <<"g", "o">>

ReplyOk(text) == [ok |-> TRUE, text |-> text]
ReplyError    == [ok |-> FALSE, text |-> <<>>]

\* [llm] values typed into the setup form: a usable one and one without model
SetupInputs ==
    { [base_url |-> <<"u">>, api_key |-> <<>>, model |-> <<"m", " ">>, timeout_seconds |-> 600],
      [base_url |-> <<"u">>, api_key |-> <<"k">>, model |-> <<" ">>, timeout_seconds |-> 600] }

\* bounds
MaxTurns == 3
MaxChangeTurns == 1

(***************************************************************************)
(* State.                                                                  *)
(*   db       the stored (committed) state of the database                 *)
(*   config   api_config.ini                                               *)
(*   conn     the view of the last handler's connection when it closed     *)
(*   last     the last request handled: operation, outcome and arguments   *)
(*   guard_in, guard_out   argument and result of a validator call         *)
(***************************************************************************)
VARIABLES db, config, conn, last, guard_in, guard_out

vars == <<db, config, conn, last, guard_in, guard_out>>

Last(op, outcome, session_id, request_id, fault) ==
    [op |-> op, outcome |-> outcome, session_id |-> session_id,
     request_id |-> request_id, fault |-> fault]

NoGuardIn  == [text |-> <<>>, max_chars |-> 0, max_depth |-> 0]
NoGuardOut == [done |-> FALSE, res |-> GuardError("")]

StoreInit ==
    /\ db = EmptyStore
    /\ config = NoConfig
    /\ conn = EmptyStore
    /\ last = Last("start", "", NoSession, 0, "none")

Init ==
    /\ StoreInit
    /\ guard_in = NoGuardIn
    /\ guard_out = NoGuardOut

\* the fault is recorded when it made the request fail
Handled(res, op, session_id, request_id, fault) ==
    /\ db' = res.db
    /\ config' = res.cfg
    /\ conn' = res.conn
    /\ last' = Last(op, res.outcome, session_id, request_id,
                    IF res.outcome = "OperationalError" THEN fault ELSE "none")
    /\ UNCHANGED <<guard_in, guard_out>>

SetupPost ==
    \E f \in SetupInputs :
        /\ config' = setup_post(config, f.base_url, f.api_key, f.model, f.timeout_seconds).cfg
        /\ conn' = db
        /\ last' = Last("setup_post",
                        IF setup_post(config, f.base_url, f.api_key, f.model,
                                      f.timeout_seconds).raised = ""
                        THEN "saved" ELSE "ValueError",
                        NoSession, 0, "none")
        /\ UNCHANGED <<db, guard_in, guard_out>>

GameTurn ==
    \E session_id \in SessionIds :
      \E in \in {[reply |-> ReplyError, fault |-> "none"]}
               \cup {[reply |-> ReplyOk(t), fault |-> f] :
                        t \in TurnTextsIn(session_id), f \in Faults} :
        /\ Len(db.turn_logs) < MaxTurns
        /\ Handled(game_turn(db, config, session_id, PlayerText, in.reply, in.fault),
                   "game_turn", session_id, 0, in.fault)

Next == SetupPost \/ GameTurn

Spec == Init /\ [][Next]_vars


(***************************************************************************)
(* Review of change requests: turns that produce requests and the          *)
(* character page's apply, reject and save.                                *)
(***************************************************************************)
\* the ids the player posts from the character page: every request there can be, and one more
RequestIds == 1..(2 * MaxChangeTurns + 1)

\* the setup form filled in with a usable endpoint
SetupUsable ==
    /\ config' = setup_post(config, <<"u">>, <<>>, <<"m", " ">>, 600).cfg
    /\ conn' = db
    /\ last' = Last("setup_post", "saved", NoSession, 0, "none")
    /\ UNCHANGED <<db, guard_in, guard_out>>

CurrentSession == get_current_campaign_session(db, config).session_id

\* the reviewed session is session 1, the one a fresh installation plays
ChangeTurn ==
    \E text \in ChangeTexts :
        /\ Len(db.turn_logs) < MaxChangeTurns
        /\ Handled(game_turn(db, config, 1, PlayerText, ReplyOk(text), "none"),
                   "game_turn", 1, 0, "none")

ChangeApply ==
    \E request_id \in RequestIds :
        Handled(change_apply(db, config, request_id),
                "change_apply", CurrentSession, request_id, "none")

ChangeReject ==
    \E request_id \in RequestIds :
        Handled(change_reject(db, config, request_id),
                "change_reject", CurrentSession, request_id, "none")

CharacterSave ==
    \E sheet \in {SheetS1, SheetS2} :
        Handled(character_save(db, config, sheet),
                "character_save", CurrentSession, 0, "none")

NextChanges ==
    \/ SetupUsable
    \/ ChangeTurn
    \/ ChangeApply
    \/ ChangeReject
    \/ CharacterSave

SpecChanges == Init /\ [][NextChanges]_vars

(***************************************************************************)
(* Review across sessions: the player switches between the sessions and    *)
(* posts apply and reject with the ids of requests of either session.  The *)
(* store is given: requests of both sessions, left by earlier turns.       *)
(***************************************************************************)
\* requests 1 and 3 belong to session 1, request 2 to session 2
ReviewStore(sheets) ==
    [create_request(
        create_request(
           create_request(EmptyStore, 1, 0, "state_delta", DeltaA),
           2, 0, "state_delta", DeltaA),
        1, 1, "thread_updates", ThreadU)
     EXCEPT !.character_sheets = sheets]

\* the ids posted: every request there is, and one there is not
ReviewRequestIds == 1..4

InitReview ==
    /\ db \in {ReviewStore(<<>>), ReviewStore(SheetRows)}
    /\ config = NoConfig
    /\ conn = db
    /\ last = Last("start", "", NoSession, 0, "none")
    /\ guard_in = NoGuardIn
    /\ guard_out = NoGuardOut

SessionSelect ==
    \E session_id \in SessionIds :
        /\ config' = saves_session_select(db, config, session_id)
        /\ conn' = db
        /\ last' = Last("session_select", "ok", session_id, 0, "none")
        /\ UNCHANGED <<db, guard_in, guard_out>>

ReviewApply ==
    \E request_id \in ReviewRequestIds :
        Handled(change_apply(db, config, request_id),
                "change_apply", CurrentSession, request_id, "none")

ReviewReject ==
    \E request_id \in ReviewRequestIds :
        Handled(change_reject(db, config, request_id),
                "change_reject", CurrentSession, request_id, "none")

NextReview == SessionSelect \/ ReviewApply \/ ReviewReject

SpecReview == InitReview /\ [][NextReview]_vars

(***************************************************************************)
(* _deep_merge on its own: a sheet and a delta, both JSON objects as       *)
(* load_base_obj and validate_state_delta_json hand them to it, are drawn  *)
(* from a bounded set and merged.                                          *)
(***************************************************************************)
\* the depth to which the objects nest below their first level of values
MaxMergeNest == 1

MergeScalars == {JNum(1), JArr(<<JNum(2), JNum(3)>>)}

\* the objects with keys among keys and values among values
ObjectsOver(keys, values) ==
    UNION {{JObj(o) : o \in [ks -> values]} : ks \in SUBSET keys}

\* values nested to depth n: two keys at the first level of nesting, one
\* key below it
RECURSIVE MergeValues(_)
MergeValues(n) ==
    IF n = 0 THEN MergeScalars
    ELSE IF n = 1 THEN MergeScalars \cup ObjectsOver({<<"a">>, <<"b">>}, MergeScalars)
    ELSE MergeValues(n - 1) \cup ObjectsOver({<<"a">>}, MergeValues(n - 1))

MergeObjects == ObjectsOver({<<"a">>, <<"b">>}, MergeValues(MaxMergeNest))

MergeCall(op, base, delta, merged) ==
    [op |-> op, base |-> base, delta |-> delta, merged |-> merged]

InitMerge ==
    /\ db = EmptyStore
    /\ config = NoConfig
    /\ conn = EmptyStore
    /\ last \in {MergeCall("start", base, EmptyDict, EmptyDict) : base \in MergeObjects}
    /\ guard_in = NoGuardIn
    /\ guard_out = NoGuardOut

DeepMerge ==
    \E delta \in MergeObjects :
        /\ last.op = "start"
        /\ last' = MergeCall("deep_merge", last.base, delta, deep_merge(last.base, delta))
        /\ UNCHANGED <<db, config, conn, guard_in, guard_out>>

NextMerge == DeepMerge

SpecMerge == InitMerge /\ [][NextMerge]_vars

(***************************************************************************)
(* Streamed turns: the generator of game_turn_stream taken one chunk at a  *)
(* time, with a client that can go away at any moment.  `last` holds the   *)
(* generator's position:                                                   *)
(*   "running"  the server is inside next(), reading the model stream      *)
(*   "delta"    parked at the yield of a delta event                       *)
(*   "final"    parked at the yield of the final event, after the commit   *)
(*   "error"    parked at the yield of an error event                      *)
(*   "closed"   finished or closed; "refused" when no endpoint is set up   *)
(* and `conn` is the view of the generator's own connection.               *)
(***************************************************************************)
HalfOf(text) == Len(text) \div 2

FirstHalf(text) == SubSeq(text, 1, HalfOf(text))

SecondHalf(text) == SubSeq(text, HalfOf(text) + 1, Len(text))

StreamEvents ==
    { <<DoneEvent>>,
      <<ContentEvent(TxtSd), DoneEvent>>,
      <<ContentEvent(FirstHalf(TxtSd)), SkipEvent, ContentEvent(<<>>),
        ContentEvent(SecondHalf(TxtSd)), DoneEvent>>,
      <<SkipEvent, ContentEvent(FirstHalf(TxtMem)), ContentEvent(SecondHalf(TxtMem))>>,
      <<ContentEvent(FirstHalf(TxtNone)), ContentEvent(SecondHalf(TxtNone)),
        DoneEvent, ContentEvent(TxtSd)>> }

StreamInputs ==
    {[events |-> e, fails_at |-> k, fault |-> "none"] :
        e \in StreamEvents, k \in {-1, 2}}
      \cup {[events |-> <<ContentEvent(TxtSd), DoneEvent>>, fails_at |-> k, fault |-> f] :
               k \in {-1, 0}, f \in {"none", "request"}}
      \cup {[events |-> <<ContentEvent(TxtNone)>>, fails_at |-> 1, fault |-> "none"]}

StreamIdle == IF last.op = "stream" THEN last.pc \in {"closed", "refused"} ELSE TRUE

\* the request fails while the generator reads on from place pos to place target
FailsBefore(target) == last.pos <= last.fails_at /\ last.fails_at < target

\* the response of the handler is set up: the generator starts at the first
\* next()
Opened(h, session_id, in) ==
    /\ config' = h.cfg
    /\ conn' = db
    /\ last' = StreamState(IF h.outcome = "streaming" THEN "running" ELSE "refused",
                           h.outcome, session_id, in.events, in.fails_at,
                           in.fault, 0, <<>>, TRUE, -1)
    /\ UNCHANGED <<db, guard_in, guard_out>>

StreamOpen ==
    \E session_id \in SessionIds, in \in StreamInputs :
        /\ StreamIdle
        /\ Len(db.turn_logs) < MaxTurns
        /\ Opened(game_turn_stream(config, session_id), session_id, in)

\* for delta in client.chat_stream_sse(messages): append and yield
StreamReceive ==
    /\ last.op = "stream" /\ last.pc = "running"
    /\ LET y == NextYield(last.events, last.pos) IN
         /\ y > 0
         /\ ~FailsBefore(y)
         /\ last' = [last EXCEPT !.pc = "delta", !.pos = y,
                                 !.dm_parts = Append(@, last.events[y].text)]
    /\ UNCHANGED <<db, config, conn, guard_in, guard_out>>

\* LLMClientError out of chat_stream_sse: the connection is closed, an error
\* event is yielded
StreamFail ==
    /\ last.op = "stream" /\ last.pc = "running"
    /\ LET y == NextYield(last.events, last.pos) IN
         FailsBefore(IF y > 0 THEN y ELSE StreamStop(last.events, last.pos))
    /\ db' = Discarded(db, conn)
    /\ last' = [last EXCEPT !.pc = "error", !.outcome = "LLMClientError",
                            !.pos = last.fails_at]
    /\ UNCHANGED <<config, conn, guard_in, guard_out>>

\* the generator has run to its final or error event
Finished(r) ==
    /\ db' = r.db
    /\ conn' = r.conn
    /\ last' = [last EXCEPT !.pc = r.pc, !.outcome = r.outcome,
                            !.pos = StreamStop(last.events, last.pos)]
    /\ UNCHANGED <<config, guard_in, guard_out>>

\* the model stream is over: the turn is persisted and committed
StreamEnd ==
    /\ last.op = "stream" /\ last.pc = "running"
    /\ NextYield(last.events, last.pos) = 0
    /\ ~FailsBefore(StreamStop(last.events, last.pos))
    /\ Finished(gen_finish(db, conn, last.session_id, PlayerText, last.dm_parts, last.fault))

\* the chunk is sent and the server asks for the next one
StreamResume ==
    /\ last.op = "stream" /\ last.pc = "delta" /\ last.connected
    /\ last' = [last EXCEPT !.pc = "running"]
    /\ UNCHANGED <<db, config, conn, guard_in, guard_out>>

\* the server learns that the client is gone; a next() under way runs to
\* its yield
ClientDisconnect ==
    /\ last.op = "stream" /\ last.pc \in {"running", "delta", "final", "error"}
    /\ last.connected
    /\ last' = [last EXCEPT !.connected = FALSE, !.gone_at = Len(last.dm_parts)]
    /\ UNCHANGED <<db, config, conn, guard_in, guard_out>>

Closed(r) ==
    /\ db' = r.db
    /\ conn' = r.conn
    /\ last' = [last EXCEPT !.pc = "closed"]
    /\ UNCHANGED <<config, guard_in, guard_out>>

\* the generator is closed where it is parked, or runs out after its last
\* event
StreamClose ==
    /\ last.op = "stream" /\ last.pc \in {"delta", "final", "error"}
    /\ last.pc = "delta" => ~last.connected
    /\ Closed(gen_close(db, conn, last.session_id, PlayerText, last.dm_parts))

NextStream ==
    \/ SetupUsable
    \/ StreamOpen
    \/ StreamReceive
    \/ StreamFail
    \/ StreamEnd
    \/ StreamResume
    \/ ClientDisconnect
    \/ StreamClose

SpecStream == Init /\ [][NextStream]_vars

(***************************************************************************)
(* Calls of the parser on its own: the model texts are built from lines,   *)
(* the six marker lines in several orders with blocks of content between   *)
(* them, with and without a preamble, joined by "\n" or "\r\n"; the lines  *)
(* of the choices section are built from choice items, up to               *)
(* MaxChoiceLines of them.                                                 *)
(***************************************************************************)
MaxChoiceLines == 2

Orders ==
    { <<"narration", "choices", "dm_notes", "memory_suggestions",
        "state_delta_json", "thread_updates_json">>,
      <<"thread_updates_json", "state_delta_json", "memory_suggestions",
        "dm_notes", "choices", "narration">>,
      <<"choices", "state_delta_json", "narration", "thread_updates_json",
        "dm_notes", "memory_suggestions">>,
      <<"dm_notes", "narration", "memory_suggestions", "thread_updates_json",
        "state_delta_json", "choices">> }

TestOrder == <<"narration", "choices", "dm_notes", "memory_suggestions",
               "state_delta_json", "thread_updates_json">>

FieldKey(f) ==
    CHOOSE k \in {KeyNarration, KeyChoices, KeyDmNotes, KeyMemory, KeyStateDelta,
                  KeyThreadUpdates} : MarkerField(k) = f

PreambleLine == <<"p", "r", "e">>

Preambles == {<<>>, <<PreambleLine>>, <<PreambleLine, <<>>, <<" ">> \o PreambleLine>>}

ContentBlocks ==
    << <<>>,
       << <<"a">> >>,
       << <<>>, <<" ", "b", " ">>, <<>> >>,
       << <<"a">>, <<"\t">>, <<" ", "b", " ">>, <<"c", " ", "d">> >> >>

Patterns == 0..(Len(ContentBlocks) - 1)

\* a line put at the head of a section: none, two indented marker tokens,
\* and a marker token after other text
ExtraLines ==
    { [at |-> "", line |-> <<>>],
      [at |-> "dm_notes", line |-> <<" ">> \o KeyNarration],
      [at |-> "narration", line |-> KeyChoices \o <<"\t">>],
      [at |-> "memory_suggestions", line |-> <<"x", " ">> \o KeyChoices] }

ChoiceItem(form, n, x) == [form |-> form, n |-> n, x |-> x]

ChoiceTexts == {<<"g", "o">>, <<"a", " ", "b">>, <<"4", "2">>, <<"3", " ", "g", "o">>}

ChoiceItems ==
    {ChoiceItem("blank", <<>>, <<>>)}
      \cup {ChoiceItem("dash", <<>>, x) : x \in ChoiceTexts}
      \cup {ChoiceItem("dot", <<"1">>, x) : x \in ChoiceTexts}
      \cup {ChoiceItem("paren", <<"1", "2">>, x) : x \in ChoiceTexts}

ChoiceLine(item) ==
    IF item.form = "dash" THEN <<"-", " ">> \o item.x
    ELSE IF item.form = "dot" THEN item.n \o <<".", " ">> \o item.x
    ELSE IF item.form = "paren" THEN item.n \o <<")", " ">> \o item.x
    ELSE <<>>

ChoiceItemSeqs == UNION {[1..n -> ChoiceItems] : n \in 1..MaxChoiceLines}

\* the choice lines of the parser's test, with an empty line among them
TestItems ==
    << ChoiceItem("dot", <<"1">>, <<"g", "o">>),
       ChoiceItem("paren", <<"1", "2">>, <<"a", " ", "b">>),
       ChoiceItem("blank", <<>>, <<>>),
       ChoiceItem("dash", <<>>, <<"g", "o">>) >>

\* the lines of the sections in the given order
RECURSIVE SectionLines(_, _, _, _, _, _)
SectionLines(order, k, pattern, pad, extra, items) ==
    IF k > Len(order) THEN <<>>
    ELSE LET f == order[k]
             marker == IF pad THEN <<" ">> \o FieldKey(f) \o <<"\t">> ELSE FieldKey(f)
             block == IF f = "choices" THEN [i \in 1..Len(items) |-> ChoiceLine(items[i])]
                      ELSE ContentBlocks[((k + pattern) % Len(ContentBlocks)) + 1]
         IN <<marker>> \o (IF extra.at = f THEN <<extra.line>> ELSE <<>>) \o block
              \o SectionLines(order, k + 1, pattern, pad, extra, items)

ParseCall(lines, sep, items) ==
    [op |-> "parse", lines |-> lines, items |-> items, text |-> JoinWith(lines, sep),
     done |-> FALSE, persisted |-> FALSE,
     dm |-> DMStructuredResponse(<<>>, <<>>, <<>>, <<>>, <<>>, <<>>)]

ParseCalls ==
    {ParseCall(preamble \o SectionLines(order, 1, pattern, pad, extra, TestItems),
               sep, TestItems) :
        order \in Orders, preamble \in Preambles, pattern \in Patterns,
        pad \in BOOLEAN, extra \in ExtraLines, sep \in {NL, <<"\r", "\n">>}}
      \cup {ParseCall(SectionLines(TestOrder, 1, 0, FALSE, [at |-> "", line |-> <<>>], items),
                      NL, items) :
               items \in ChoiceItemSeqs}

\* texts that do not follow the protocol: empty and blank ones, plain text,
\* lone and indented marker tokens, and texts with the fallback's keywords
LooseTexts ==
    { <<>>,
      <<" ">>,
      <<"\n", "\t", " ">>,
      <<"\r", "\n">>,
      <<"h", "i">>,
      <<" ", "h", "i", " ", "\n", " ", "y", "o", " ", "\n">>,
      <<"1">>,
      <<"-">>,
      <<"1", ".">>,
      <<"n", "a", "r", "r", "a", "t", "i", "o", "n", " ", "x">>,
      <<"m", "e", "m", "o", "r", "y", " ", "s", "u", "g", "g", "e", "s", "t", "i", "o", "n", "s", " ", "a">>,
      <<"d", "m", " ", "n", "o", "t", "e", "s", " ", "z">>,
      <<" ", "=", "=", "=", "N", "A", "R", "R", "A", "T", "I", "O", "N", "=", "=", "=", "\n", "h", "i">>,
      <<"=", "=", "=", "M", "E", "M", "O", "R", "Y", "=", "=", "=", "\t", "\n", "m">>,
      <<"s", "o", " ", "=", "=", "=", "N", "A", "R", "R", "A", "T", "I", "O", "N", "=", "=", "=", " ", "h", "i">>,
      <<"=", "=", "=", "n", "a", "r", "r", "a", "t", "i", "o", "n", "=", "=", "=", "\n", "h", "i">>,
      <<"=", "=", "=", "C", "H", "O", "I", "C", "E", "S", "=", "=", "=">>,
      <<"=", "=", "=", "S", "T", "A", "T", "E", "_", "D", "E", "L", "T", "A", "=", "=", "=", "\n", "{", "}">>,
      <<"x", "\n", "=", "=", "=", "N", "A", "R", "R", "A", "T", "I", "O", "N", "=", "=", "=">>,
      <<"g", "o", "\n", "C", "h", "o", "i", "c", "e", "s", "\n", "-", " ", "a", "\n", "*", " ", "b", "\n", "-", "\n", "c", "h", "o", "i", "c", "e", "s", " ", "x", "\n", "-", " ", "3", " ", "c", "\n", "D", "M", "_", "N", "o", "t", "e", "s", " ", "n">>,
      <<"m", "e", "m", "o", "r", "y", "_", "s", "u", "g", "g", "e", "s", "t", "i", "o", "n", "s", " ", "m", "\n", "n", "a", "r", "r", "a", "t", "i", "o", "n", " ", "n", "\n", "c", "h", "o", "i", "c", "e", "s", "\n", "1", ".", " ", "a">>,
      <<"g", "o", "\n">> \o Zh_xuanxiang \o <<"\n", "-", " ", "a", "\n">> \o Zh_kexuan \o <<"b">>,
      <<"x">> \o Zh_beizhu \o <<"y">>,
      Zh_xushi \o <<"n", "\n">> \o Zh_kexuanxingdong \o <<"\n", "*", "a">>,
      Zh_kexuanxingdong \o <<" ", "a">>,
      <<"=", "=", "=", "s", "t", "a", "t", "e", "_", "d", "e", "l", "t", "a", "=", "=", "=", "\n">> \o ThreadU,
      <<"x", " ", "=", "=", "=", "S", "T", "A", "T", "E", "_", "D", "E", "L", "T", "A", "=", "=", "=", "\n">> \o ThreadU,
      ThreadU,
      <<"c", "h", "o", "i", "c", "e", "s", "\n", "-", " ", "a", "\n", "s", "t", "a", "t", "e", "_", "d", "e", "l", "t", "a", "\n">> \o ThreadU }

LooseCall(text) ==
    [op |-> "parse", lines |-> SplitLines(text), items |-> <<>>, text |-> text,
     done |-> FALSE, persisted |-> FALSE,
     dm |-> DMStructuredResponse(<<>>, <<>>, <<>>, <<>>, <<>>, <<>>)]

InitParse ==
    /\ db = EmptyStore
    /\ config = NoConfig
    /\ conn = EmptyStore
    /\ last \in ParseCalls \cup {LooseCall(text) : text \in LooseTexts}
    /\ guard_in = NoGuardIn
    /\ guard_out = NoGuardOut

Parse ==
    /\ ~last.done
    /\ last' = [last EXCEPT !.done = TRUE, !.dm = parse_dm_text(last.text)]
    /\ UNCHANGED <<db, config, conn, guard_in, guard_out>>

\* the turn is persisted with the parsed reply and committed, as game_turn
\* does after the parse; conn is the view of the connection that wrote
Persisted(r) ==
    /\ conn' = r.db
    /\ db' = IF r.raised = "" THEN Committed(db, r.db) ELSE Discarded(db, r.db)
    /\ last' = [last EXCEPT !.persisted = TRUE]
    /\ UNCHANGED <<config, guard_in, guard_out>>

PersistParsed ==
    /\ last.done /\ ~last.persisted
    /\ Persisted(persist_turn(db, 1, PlayerText, last.text, last.dm, "none"))

NextParse == Parse \/ PersistParsed

SpecParse == InitParse /\ [][NextParse]_vars

(***************************************************************************)
(* Two turns in flight on session 1, each on its own connection.  A turn   *)
(* reads its turn index (persist_turn's first statement), writes (the      *)
(* insert of the turn row opens the connection's transaction, and the      *)
(* storage layer lets one connection write at a time), and commits.        *)
(* `last` keeps for each turn its position, the index it read, the reply   *)
(* and the view of its connection, and a log of how the turns ended.       *)
(***************************************************************************)
Turns == {"A", "B"}

\* the turns begun in one run
MaxRaceTurns == 3

RaceTexts == {TxtNone, TxtSd, TxtMem}

IdleTurn == [pc |-> "idle", idx |-> 0, text |-> <<>>, raised |-> "", view |-> EmptyStore]

RaceState(turns, begun, log) == [op |-> "race", turns |-> turns, begun |-> begun, log |-> log]

InitRace ==
    /\ db = EmptyStore
    /\ config = NoConfig
    /\ conn = EmptyStore
    /\ last = RaceState([t \in Turns |-> IdleTurn], 0, <<>>)
    /\ guard_in = NoGuardIn
    /\ guard_out = NoGuardOut

\* the connection that has written and not yet committed holds the lock
WriteLocked == \E t \in Turns : last.turns[t].pc = "written"

TurnEnd(t, idx, outcome) == [turn |-> t, idx |-> idx, outcome |-> outcome]

\* turn_index = _next_turn_index(conn, session_id): the connection reads
\* what is committed
ReadIndex ==
    \E t \in Turns, text \in RaceTexts :
        /\ last.turns[t].pc = "idle"
        /\ last.begun < MaxRaceTurns
        /\ last' = [last EXCEPT !.begun = @ + 1,
                                !.turns[t] = [IdleTurn EXCEPT !.pc = "indexed",
                                                !.idx = get_next_turn_index(db, 1),
                                                !.text = text]]
        /\ UNCHANGED <<db, config, conn, guard_in, guard_out>>

\* the rest of persist_turn has run on the connection of turn t with r as
\* its result: the turn waits for its commit, or it has failed and its
\* connection was closed without one
Written(t, r) ==
    /\ conn' = r.db
    /\ db' = IF r.raised = "" THEN db ELSE Discarded(db, r.db)
    /\ last' = IF r.raised = ""
               THEN [last EXCEPT !.turns[t].pc = "written", !.turns[t].view = r.db]
               ELSE [last EXCEPT !.turns[t].pc = "failed", !.turns[t].raised = r.raised,
                                 !.log = Append(@, TurnEnd(t, last.turns[t].idx, r.raised))]
    /\ UNCHANGED <<config, guard_in, guard_out>>

WriteTurn ==
    \E t \in Turns :
        /\ last.turns[t].pc = "indexed"
        /\ ~WriteLocked
        /\ Written(t, persist_turn_at(db, 1, last.turns[t].idx, PlayerText,
                                      last.turns[t].text,
                                      parse_dm_text(last.turns[t].text), "none"))

\* the other connection kept its transaction open for longer than the
\* connection waits: the insert raises OperationalError (database is locked)
Busy ==
    \E t \in Turns :
        /\ last.turns[t].pc = "indexed"
        /\ WriteLocked
        /\ last' = [last EXCEPT !.turns[t].pc = "failed",
                                !.turns[t].raised = "OperationalError",
                                !.log = Append(@, TurnEnd(t, last.turns[t].idx, "OperationalError"))]
        /\ UNCHANGED <<db, config, conn, guard_in, guard_out>>

CommitTurn ==
    \E t \in Turns :
        /\ last.turns[t].pc = "written"
        /\ db' = Committed(db, last.turns[t].view)
        /\ conn' = last.turns[t].view
        /\ last' = [last EXCEPT !.turns[t].pc = "committed",
                                !.log = Append(@, TurnEnd(t, last.turns[t].idx, "committed"))]
        /\ UNCHANGED <<config, guard_in, guard_out>>

\* the request of the turn is answered; the next one of this client may come
ReturnTurn ==
    \E t \in Turns :
        /\ last.turns[t].pc \in {"committed", "failed"}
        /\ last' = [last EXCEPT !.turns[t] = IdleTurn]
        /\ UNCHANGED <<db, config, conn, guard_in, guard_out>>

NextRace == ReadIndex \/ WriteTurn \/ Busy \/ CommitTurn \/ ReturnTurn

SpecRace == InitRace /\ [][NextRace]_vars

(***************************************************************************)
(* llm/client.py: OpenAICompatClient.chat, one HTTP attempt at a time.     *)
(*                                                                         *)
(* What an attempt meets is given: a response (its status and its body) or *)
(* an exception of httpx out of client.post.  The call keeps the number of *)
(* the attempt, what the attempts met, and how it ended.                   *)
(***************************************************************************)
\* bodies: a completion with a text, a completion whose content is null,
\* JSON without choices, and text that is no JSON
Body(shape, content) == [shape |-> shape, content |-> content]

Response(status, body) == [kind |-> "response", status |-> status, body |-> body]

Failure(kind) == [kind |-> kind, status |-> 0, body |-> Body("none", <<>>)]

\* httpx.ReadTimeout, httpx.ConnectError
Transient == {"ReadTimeout", "ConnectError"}

Running(attempt, met) ==
    [pc |-> "running", attempt |-> attempt, met |-> met, raised |-> "", message |-> "",
     value |-> Body("none", <<>>)]

Raised(attempt, met, message) ==
    [pc |-> "raised", attempt |-> attempt, met |-> met, raised |-> "LLMClientError",
     message |-> message, value |-> Body("none", <<>>)]

Returned(attempt, met, value) ==
    [pc |-> "returned", attempt |-> attempt, met |-> met, raised |-> "", message |-> "",
     value |-> value]

\* the body of the loop for one attempt, and the lines after the loop when
\* it is left with a response
chat_attempt(call, outcome) ==
    LET met == Append(call.met, outcome) IN
    IF outcome.kind = "response"
    THEN IF outcome.status >= 400 THEN Raised(call.attempt, met, "LLM HTTP error")
         ELSE IF outcome.body.shape = "not_json"
              THEN Raised(call.attempt, met, "LLM request failed")
         ELSE IF outcome.body.shape = "no_choices"
              THEN Raised(call.attempt, met, "Unexpected LLM response shape")
         ELSE Returned(call.attempt, met, outcome.body)
    ELSE IF outcome.kind \in Transient
         THEN IF call.attempt = 0 THEN Running(1, met)
              ELSE Raised(call.attempt, met, "LLM request failed")
    ELSE Raised(call.attempt, met, "LLM request failed")

(***************************************************************************)
(* Calls of chat: a call is started with one of a few message lists and    *)
(* goes on one attempt at a time; a new call starts when the one before    *)
(* has ended.                                                              *)
(***************************************************************************)
ChatInputs ==
    { <<ChatMessage("user", <<"g", "o">>)>>,
      <<ChatMessage("system", SystemRules), ChatMessage("user", <<"g", "o">>)>>,
      <<>> }

Outcomes ==
    {Response(200, Body("content", t)) : t \in {TxtNone, TxtSd, TxtTu, <<>>}}
    \cup {Response(200, Body("null_content", <<>>)), Response(200, Body("no_choices", <<>>)),
          Response(200, Body("not_json", <<>>)), Response(500, Body("not_json", <<>>)),
          Response(401, Body("no_choices", <<>>))}
    \cup {Failure(k) : k \in Transient \cup {"ConnectTimeout", "WriteTimeout"}}

\* the attempts one call may be given: the loop is range(2), a variant
\* that goes on is cut off here
MaxAttempts == 3

ChatCall(messages, call) == [op |-> "chat", messages |-> messages, call |-> call]

InitChat ==
    /\ db = EmptyStore
    /\ config = NoConfig
    /\ conn = EmptyStore
    /\ last \in {ChatCall(messages, Running(0, <<>>)) : messages \in ChatInputs}
    /\ guard_in = NoGuardIn
    /\ guard_out = NoGuardOut

Attempted(call) ==
    /\ last' = [last EXCEPT !.call = call]
    /\ UNCHANGED <<db, config, conn, guard_in, guard_out>>

ChatAttempt ==
    /\ last.call.pc = "running"
    /\ Len(last.call.met) < MaxAttempts
    /\ \E outcome \in Outcomes : Attempted(chat_attempt(last.call, outcome))

ChatAgain ==
    /\ last.call.pc # "running"
    /\ \E messages \in ChatInputs : last' = ChatCall(messages, Running(0, <<>>))
    /\ UNCHANGED <<db, config, conn, guard_in, guard_out>>

NextChat == ChatAttempt \/ ChatAgain

SpecChat == InitChat /\ [][NextChat]_vars

(***************************************************************************)
(* Calls of config.py on its own: the file starts as one a user may have   *)
(* written by hand ([memory] is only ever written by hand), and the save   *)
(* and load functions are called on it in any order.  last keeps the       *)
(* argument of the latest save of each kind and what the latest load       *)
(* returned.                                                               *)
(***************************************************************************)
\* the values of a [memory] option in the file; Absent for an option that is
\* not there
Absent == <<"\n">>

HistoryValues == {Absent, <<>>, <<"a", "b", "c">>, <<"5", "0", "%">>, <<" ", "7", " ">>, <<"-", "2">>, <<"1", "_", "0">>}

StoryValues == {Absent, <<"3">>, <<"x", "%", "%">>, <<"%", "(", "h", "i", "s", "t", "o", "r", "y", "_", "t", "u", "r", "n", "s", "_", "f", "o", "r", "_", "p", "r", "o", "m", "p", "t", ")", "s">>}

MemorySection(h, s) ==
    Section(TRUE,
            {k \in MemoryKeys : [history_turns_for_prompt |-> h, story_journal_for_prompt |-> s][k] # Absent},
            [history_turns_for_prompt |-> IF h = Absent THEN <<>> ELSE h,
             story_journal_for_prompt |-> IF s = Absent THEN <<>> ELSE s])

ConfigFiles ==
    {NoConfig}
    \cup {[NoConfig EXCEPT !.memory = MemorySection(h, s)] : h \in HistoryValues, s \in StoryValues}
    \cup {[NoConfig EXCEPT !.app = Section(TRUE, AppKeys, [active_campaign_id |-> <<"a", "b", "c">>,
                                                           active_session_id |-> <<"3">>])],
          [NoConfig EXCEPT !.llm = Section(TRUE, {"base_url", "model", "timeout_seconds"},
                                          [provider |-> <<>>, base_url |-> <<"u">>,
                                           api_key |-> <<>>, model |-> <<"m">>,
                                           timeout_seconds |-> <<"a", "b", "c">>])]}

LlmInputs ==
    {LLMConfig(<<"u">>, <<>>, <<"m">>, 125, DefaultProvider),
     LLMConfig(<<"u">>, <<"k">>, <<"m">>, 600, <<"x">>),
     LLMConfig(<<"u">>, <<"a", "%", "b">>, <<"m">>, 600, DefaultProvider),
     LLMConfig(<<"u">>, <<"a", "%", "%">>, <<"m">>, 600, DefaultProvider),
     LLMConfig(<<" ", "u">>, <<"k">>, <<"m">>, 600, DefaultProvider),
     LLMConfig(<<"u">>, <<"k">>, <<"m">>, 600, <<>>),
     LLMConfig(<<>>, <<"k">>, <<"m">>, 600, DefaultProvider)}

AppInputs == {AppState(1, 2), AppState(12, 3), AppState(1, NoSession), AppState(NoSession, NoSession)}

NoSaved(value) == [given |-> FALSE, raised |-> "", value |-> value]

ConfigCall(call, saved_llm, saved_app, loaded_llm, loaded_app, loaded_memory) ==
    [op |-> "config", call |-> call, saved_llm |-> saved_llm, saved_app |-> saved_app,
     loaded_llm |-> loaded_llm, loaded_app |-> loaded_app, loaded_memory |-> loaded_memory]

NotLoaded ==
    [llm |-> [found |-> FALSE, raised |-> "", value |-> NoLLMConfig],
     app |-> AppState(NoSession, NoSession),
     memory |-> [raised |-> "", value |-> MemoryConfig(0, 0)]]

InitConfig ==
    /\ db = EmptyStore
    /\ config \in ConfigFiles
    /\ conn = EmptyStore
    /\ last = ConfigCall("none", NoSaved(NoLLMConfig), NoSaved(AppState(NoSession, NoSession)),
                         NotLoaded.llm, NotLoaded.app, NotLoaded.memory)
    /\ guard_in = NoGuardIn
    /\ guard_out = NoGuardOut

SavedLlm(llm, r) ==
    /\ config' = r.cfg
    /\ last' = ConfigCall("save_llm_config",
                          [given |-> TRUE, raised |-> r.raised, value |-> llm],
                          last.saved_app, NotLoaded.llm, NotLoaded.app, NotLoaded.memory)

SaveLlm ==
    /\ \E llm \in LlmInputs : SavedLlm(llm, save_llm_config(config, llm))
    /\ UNCHANGED <<db, conn, guard_in, guard_out>>

LoadLlm ==
    /\ last' = ConfigCall("load_llm_config", last.saved_llm, last.saved_app,
                          load_llm_config(config), NotLoaded.app, NotLoaded.memory)
    /\ UNCHANGED <<db, config, conn, guard_in, guard_out>>

SaveApp ==
    /\ \E state \in AppInputs :
        /\ config' = save_app_state(config, state)
        /\ last' = ConfigCall("save_app_state", last.saved_llm,
                              [given |-> TRUE, raised |-> "", value |-> state],
                              NotLoaded.llm, NotLoaded.app, NotLoaded.memory)
    /\ UNCHANGED <<db, conn, guard_in, guard_out>>

LoadApp ==
    /\ last' = ConfigCall("load_app_state", last.saved_llm, last.saved_app,
                          NotLoaded.llm, load_app_state(config), NotLoaded.memory)
    /\ UNCHANGED <<db, config, conn, guard_in, guard_out>>

LoadMemory ==
    /\ last' = ConfigCall("load_memory_config", last.saved_llm, last.saved_app,
                          NotLoaded.llm, NotLoaded.app, load_memory_config(config))
    /\ UNCHANGED <<db, config, conn, guard_in, guard_out>>

NextConfig == SaveLlm \/ LoadLlm \/ SaveApp \/ LoadApp \/ LoadMemory

SpecConfig == InitConfig /\ [][NextConfig]_vars

(***************************************************************************)
(* Calls of the validator on its own: the arguments are drawn from JSON    *)
(* values of every shape up to MaxNest containers inside one another,      *)
(* written compactly, with and without surrounding whitespace, with limits *)
(* around the size and depth of the text; from a few texts that are no     *)
(* JSON; and from chains of objects around the default depth.              *)
(***************************************************************************)
MaxNest == 2

Scalars == {JNull, JNum(1), JStr(<<"x">>)}

KeyA == <<"a">>
KeyB == <<"b">>

RECURSIVE JsonValues(_)
JsonValues(n) ==
    IF n = 0 THEN Scalars
    ELSE LET inner == JsonValues(n - 1) IN
         inner
           \cup {JArr(<<>>), EmptyDict}
           \cup {JArr(<<v>>) : v \in inner}
           \cup {JArr(<<JNum(1), v>>) : v \in inner}
           \cup {JObj(KeyA :> v) : v \in inner}
           \cup {JObj((KeyA :> v) @@ (KeyB :> JNull)) : v \in inner}

\* the compact JSON text of a value
RECURSIVE Render(_)
RECURSIVE RenderItems(_, _)
RECURSIVE RenderMembers(_, _)

Render(v) ==
    IF v.t = "null" THEN LitNull
    ELSE IF v.t = "bool" THEN (IF v.b THEN LitTrue ELSE LitFalse)
    ELSE IF v.t = "num" THEN IntToText(v.n)
    ELSE IF v.t = "str" THEN Quoted(v.s)
    ELSE IF v.t = "arr" THEN <<"[">> \o RenderItems(v.a, 1) \o <<"]">>
    ELSE <<"{">> \o RenderMembers(v.o, DOMAIN v.o) \o <<"}">>

RenderItems(a, i) ==
    IF i > Len(a) THEN <<>>
    ELSE Render(a[i]) \o (IF i = Len(a) THEN <<>> ELSE <<",">> \o RenderItems(a, i + 1))

RenderMembers(o, keys) ==
    IF keys = {} THEN <<>>
    ELSE LET k == CHOOSE x \in keys : TRUE IN
         Quoted(k) \o <<":">> \o Render(o[k])
           \o (IF keys = {k} THEN <<>> ELSE <<",">> \o RenderMembers(o, keys \ {k}))

\* n objects inside one another around inner
RECURSIVE ObjChain(_, _)
ObjChain(n, inner) ==
    IF n = 0 THEN inner ELSE JObj(KeyA :> ObjChain(n - 1, inner))

Paddings == {[l |-> <<>>, r |-> <<>>], [l |-> <<" ">>, r |-> NL]}

GuardCall(text, max_chars, max_depth) ==
    [text |-> text, max_chars |-> max_chars, max_depth |-> max_depth]

ShapeCalls ==
    UNION {
      {GuardCall(pad.l \o Render(v) \o pad.r, max_chars, max_depth) :
          pad \in Paddings,
          max_chars \in {Len(Render(v)) - 1, Len(Render(v)), Len(Render(v)) + 1,
                         DefaultMaxChars},
          max_depth \in 1..(MaxNest + 1)}
      : v \in JsonValues(MaxNest) }

RawCalls ==
    {GuardCall(text, max_chars, DefaultMaxDepth) :
        text \in {<<>>, <<" ", "\n">>, <<"{">>, <<"{", "\"", "a", "\"", "}">>,
                  <<"{", "}", "x">>},
        max_chars \in {0, 2, DefaultMaxChars}}

DefaultCalls ==
    {GuardCall(Render(v), DefaultMaxChars, DefaultMaxDepth) :
        v \in {ObjChain(DefaultMaxDepth - 1, EmptyDict),
               ObjChain(DefaultMaxDepth - 1, JObj(KeyA :> JNum(1))),
               ObjChain(DefaultMaxDepth - 1, JObj(KeyA :> JArr(<<>>))),
               ObjChain(DefaultMaxDepth - 1, JObj(KeyA :> JArr(<<JNull>>))),
               ObjChain(DefaultMaxDepth - 2, JObj(KeyA :> JNum(1))),
               ObjChain(DefaultMaxDepth, EmptyDict)}}

GuardCalls == ShapeCalls \cup RawCalls \cup DefaultCalls

InitGuard ==
    /\ StoreInit
    /\ guard_in \in GuardCalls
    /\ guard_out = NoGuardOut

Validate ==
    /\ ~guard_out.done
    /\ guard_out' = [done |-> TRUE,
                     res |-> validate_state_delta_json(guard_in.text, guard_in.max_chars,
                                                       guard_in.max_depth)]
    /\ UNCHANGED <<db, config, conn, last, guard_in>>

NextGuard == Validate

SpecGuard == InitGuard /\ [][NextGuard]_vars

(***************************************************************************)
(* Runs of the rollup on its own.  The rollup reads the journal rows that  *)
(* carry a turn_index (schema v4 adds the column); the journal it works on *)
(* is drawn from the contents below, and each step is one call of          *)
(* _maybe_rollup_summaries for a session of the journal, with the current  *)
(* turn index staying or moving forward.                                   *)
(***************************************************************************)
\* the journals offer up to MaxChunks full chunks to a session
MaxChunks == 4

JournalRow(id, session_id, turn_index) ==
    [id |-> id, session_id |-> session_id, turn_index |-> turn_index,
     scene_id |-> <<"i", "n", "n">>,
     summary |-> IF id % 7 = 3 THEN <<" ">> ELSE <<" ", "e">> \o IntToText(id)]

\* rows in rowid order from <<session, turn>> pairs
JournalOf(pairs) ==
    [i \in 1..Len(pairs) |-> JournalRow(i, pairs[i][1], pairs[i][2])]

\* one row for each turn from..to of the session
Dense(session_id, from, to) ==
    [i \in 1..(to - from + 1) |-> <<session_id, from + i - 1>>]

FullTurns == MaxChunks * CHAPTER_CHUNK

\* turns without a journal row, among them the turn after a chunk's last
HoleTurns == {3, CHAPTER_CHUNK + 1, CHAPTER_CHUNK + 2, 2 * CHAPTER_CHUNK + 5}

JournalContents ==
    { JournalOf(Dense(1, 0, FullTurns - 1)),
      JournalOf(Dense(1, 0, CHAPTER_CHUNK - 2)),
      JournalOf(Dense(1, 0, CHAPTER_CHUNK)),
      JournalOf(SelectSeq(Dense(1, 0, FullTurns - 1), LAMBDA p : p[2] \notin HoleTurns)),
      JournalOf([i \in 1..(CHAPTER_CHUNK + 5) |-> <<1, CHAPTER_CHUNK + 5 - i>>]),
      JournalOf(Dense(1, 0, CHAPTER_CHUNK - 2)
                  \o <<<<1, CHAPTER_CHUNK - 1>>, <<1, CHAPTER_CHUNK - 1>>>>
                  \o Dense(1, CHAPTER_CHUNK, 2 * CHAPTER_CHUNK)),
      JournalOf([i \in 1..(2 * CAMPAIGN_REGEN_CHAPTERS * CHAPTER_CHUNK) |->
                    <<2 - (i % 2), (i - 1) \div 2>>]
                  \o Dense(1, CAMPAIGN_REGEN_CHAPTERS * CHAPTER_CHUNK,
                           (CAMPAIGN_REGEN_CHAPTERS + 1) * CHAPTER_CHUNK - 1)),
      JournalOf([i \in 1..(2 * CHAPTER_CHUNK) |->
                    <<1, IF i % 2 = 0 THEN NullInt ELSE (i - 1) \div 2>>]) }

StoreOf(journal) == [EmptyStore EXCEPT !.story_journal_entries = journal]

\* the turns played: a few more than the session's journal has rows
JournalSize(d, session_id) ==
    Len(SelectSeq(d.story_journal_entries, LAMBDA r : r.session_id = session_id))

TurnSteps == {0, 1, CHAPTER_CHUNK, 2 * CHAPTER_CHUNK}

\* the last run: its arguments, the number of rows it added, and whether
\* it repeated the arguments of the run before it
RollupLast(session_id, current_turn_index, inserted, again) ==
    [op |-> "rollup", session_id |-> session_id,
     current_turn_index |-> current_turn_index,
     inserted |-> inserted, again |-> again]

NoRollup == RollupLast(NoSession, -1, 0, FALSE)

InitRollup ==
    /\ db \in {StoreOf(j) : j \in JournalContents}
    /\ config = NoConfig
    /\ conn = db
    /\ last = NoRollup
    /\ guard_in = NoGuardIn
    /\ guard_out = NoGuardOut

Rollup ==
    \E session_id \in SessionIds, step \in TurnSteps :
      LET t == last.current_turn_index + step IN
        /\ t >= 0
        /\ t <= JournalSize(db, session_id) + RECENT_BUFFER + 2
        /\ db' = maybe_rollup_summaries(db, session_id, t)
        /\ conn' = db'
        /\ last' = RollupLast(session_id, t,
                              db'.summaries_seq - db.summaries_seq,
                              last.session_id = session_id /\ step = 0)
        /\ UNCHANGED <<config, guard_in, guard_out>>

NextRollup == Rollup

SpecRollup == InitRollup /\ [][NextRollup]_vars

(***************************************************************************)
(* A long session: a journal with a row for every turn, played until the   *)
(* session holds as many chapters as the chapter list returns.  With such  *)
(* a journal the rollup inserts at the turns CHAPTER_CHUNK + RECENT_BUFFER *)
(* - 1, then every CHAPTER_CHUNK turns, and changes nothing at the turns   *)
(* in between, so the store is that of those calls applied in order.       *)
(***************************************************************************)
RECURSIVE Played(_, _, _, _)
Played(d, session_id, t, n) ==
    IF n = 0 THEN d
    ELSE LET d1 == maybe_rollup_summaries(d, session_id, t) IN
         IF d1.summaries_seq = d.summaries_seq THEN d1
         ELSE Played(d1, session_id, t + CHAPTER_CHUNK, n - 1)

FirstRollupTurn == CHAPTER_CHUNK + RECENT_BUFFER - 1

LongJournal(chapters) == JournalOf(Dense(1, 0, chapters * CHAPTER_CHUNK - 1))

InitRollupLong ==
    /\ \/ /\ db \in {StoreOf(j) : j \in JournalContents}
          /\ last = NoRollup
       \/ /\ db = Played(StoreOf(LongJournal(ChapterListLimit + 1)), 1,
                         FirstRollupTurn, ChapterListLimit)
          /\ last = RollupLast(1, FirstRollupTurn
                                    + (ChapterListLimit - 1) * CHAPTER_CHUNK,
                                2, FALSE)
    /\ config = NoConfig
    /\ conn = db
    /\ guard_in = NoGuardIn
    /\ guard_out = NoGuardOut

SpecRollupLong == InitRollupLong /\ [][NextRollup]_vars

(***************************************************************************)
(* The rollup on journals with long summaries: the lines of a chunk come   *)
(* to more than CHAPTER_MAX_CHARS characters, to exactly that many, to one *)
(* more, or to none at all.                                                *)
(***************************************************************************)
\* a row whose summary is a space and width characters
WideRow(id, turn_index, width) ==
    [JournalRow(id, 1, turn_index) EXCEPT !.summary = <<" ">> \o [k \in 1..width |-> "w"]]

\* 11 lines of this width and their line breaks are CHAPTER_MAX_CHARS - 1
\* characters: the character before the cut is a line break
WidthCut == (CHAPTER_MAX_CHARS - 1) \div 11 - 1

\* all lines but one of this width, one a character wider and the line
\* breaks between them are CHAPTER_MAX_CHARS characters
WidthFit == (CHAPTER_MAX_CHARS - (CHAPTER_CHUNK - 1)) \div CHAPTER_CHUNK

WideJournals ==
    { [i \in 1..(CAMPAIGN_REGEN_CHAPTERS * CHAPTER_CHUNK) |-> WideRow(i, i - 1, WidthCut)],
      [i \in 1..(CHAPTER_CHUNK + 2) |->
          WideRow(i, i - 1, IF i = CHAPTER_CHUNK THEN WidthFit + 1 ELSE WidthFit)],
      [i \in 1..(CHAPTER_CHUNK + 2) |->
          WideRow(i, i - 1, IF i \in {1, CHAPTER_CHUNK} THEN WidthFit + 1 ELSE WidthFit)],
      [i \in 1..(2 * CHAPTER_CHUNK) |-> WideRow(i, i - 1, IF i <= CHAPTER_CHUNK THEN 0 ELSE 3)] }

InitRollupWide ==
    /\ db \in {StoreOf(j) : j \in WideJournals}
    /\ config = NoConfig
    /\ conn = db
    /\ last = NoRollup
    /\ guard_in = NoGuardIn
    /\ guard_out = NoGuardOut

SpecRollupWide == InitRollupWide /\ [][NextRollup]_vars

(***************************************************************************)
(* Calls of the prompt builders on their own: the stores are given, with   *)
(* turns of two sessions (replies with and without choices, a blank player *)
(* text, an empty reply), journal rows, summaries of both levels, world    *)
(* entries of two campaigns and plot threads.                              *)
(***************************************************************************)
TurnRow(id, session_id, turn_index, player_text, dm_text) ==
    [id |-> id, session_id |-> session_id, turn_index |-> turn_index,
     player_text |-> player_text, dm_text |-> dm_text, dice_events |-> EmptyDiceEvents]

TxtChoices == KeyNarration \o NL \o <<"h", "i">> \o NL \o KeyChoices \o NL
              \o <<"-", " ", "a">> \o NL \o <<"2", ".", " ", "b">>

TurnsPlain ==
    << TurnRow(1, 1, 0, <<"g", "o">>, TxtNone),
       TurnRow(2, 2, 0, <<"h", "e", "y">>, <<"y", "o">>),
       TurnRow(3, 1, 1, <<" ", "l", "o", "o", "k", " ">>, TxtChoices),
       TurnRow(4, 1, 2, <<"r", "u", "n">>, <<" ", "o", "k", " ">>) >>

\* the reply of turn 1 is empty (a stream without content), the player text
\* of turn 2 is blank
TurnsBlank ==
    << TurnRow(1, 1, 0, <<"g", "o">>, TxtNone),
       TurnRow(2, 1, 1, <<"l", "o", "o", "k">>, <<>>),
       TurnRow(3, 1, 2, <<" ">>, <<"o", "k">>) >>

JournalShort == JournalOf(<< <<1, 0>>, <<2, 0>>, <<1, 1>>, <<1, 2>>, <<1, 3>> >>)

SummaryRow(id, session_id, level, start_turn, end_turn, summary) ==
    [id |-> id, session_id |-> session_id, level |-> level,
     start_turn |-> start_turn, end_turn |-> end_turn, summary |-> summary]

SummariesBoth ==
    << SummaryRow(1, 1, "chapter", 0, 19, <<"c", "1">>),
       SummaryRow(2, 1, "chapter", 20, 39, <<" ", "c", "2">>),
       SummaryRow(3, 2, "chapter", 0, 19, <<"o", "1">>),
       SummaryRow(4, 1, "campaign", 0, 39, <<"a", "l", "l">>) >>

SummariesChapter == << SummaryRow(1, 1, "chapter", 0, 19, <<"c", "1">>) >>

WorldRow(id, campaign_id, title, tags, updated_at) ==
    [id |-> id, campaign_id |-> campaign_id, type |-> <<"n", "p", "c">>, title |-> title,
     content |-> <<"x">>, tags |-> tags, updated_at |-> updated_at]

\* entries get their time when they are inserted: two of them in one second
WorldEntries ==
    << WorldRow(1, 1, <<"t", "1">>, <<"f", ",", "a", "_", "c">>, 1),
       WorldRow(2, 1, <<"t", "2">>, <<"F">>, 2),
       WorldRow(3, 2, <<"t", "3">>, <<"f">>, 2),
       WorldRow(4, 1, <<"t", "4">>, <<"a", "b", "c">>, 2),
       WorldRow(5, 1, <<"t", "5">>, <<>>, 3) >>

ThreadRow(id, session_id, title, status, priority, summary, updated_at) ==
    [id |-> id, session_id |-> session_id, title |-> title, status |-> status,
     priority |-> priority, summary |-> summary, next_step |-> <<>>, tags |-> <<>>,
     updated_at |-> updated_at]

Threads ==
    << ThreadRow(1, 1, <<"k", "e", "y">>, "open", 0, <<>>, 1),
       ThreadRow(2, 1, <<"o", "r", "b">>, "open", 2, <<"l", "o", "s", "t">>, 1),
       ThreadRow(3, 1, <<"o", "l", "d">>, "closed", 5, <<>>, 2) >>

PromptStore(turns, journal, sums, world, threads) ==
    [EmptyStore EXCEPT !.turn_logs = turns, !.story_journal_entries = journal,
                       !.session_summaries = sums, !.summaries_seq = Len(sums),
                       !.world_bible_entries = world, !.plot_threads = threads]

PromptStores ==
    { EmptyStore,
      PromptStore(TurnsPlain, JournalShort, SummariesBoth, WorldEntries, Threads),
      PromptStore(TurnsBlank, JournalShort, SummariesChapter, WorldEntries, <<>>),
      PromptStore(TurnsPlain, <<>>, <<>>, SubSeq(WorldEntries, 1, 3), Threads) }

CampaignIds == {1, 2}

TagLists == {<<>>, << <<"f">> >>, << <<"a", "_", "c">> >>, << <<"z">>, <<"f">> >>}

WorldLimits == {0, 1, 2, WorldBibleLimit}

TurnLimits == {-1, 0, 1, 2, HISTORY_TURNS_FOR_PROMPT}

StoryLimits == {0, 2, STORY_JOURNAL_FOR_PROMPT}

PlayerTexts == {<<"g", "o">>, <<" ">>}

NoArgs ==
    [campaign_id |-> 0, session_id |-> NoSession, tags |-> <<>>, limit |-> 0,
     player_text |-> <<>>, memory_cfg |-> MemoryConfig(0, 0)]

PromptCall(call, args, rows, blocks, preview, messages) ==
    [op |-> "prompt", call |-> call, args |-> args, rows |-> rows, blocks |-> blocks,
     preview |-> preview, messages |-> messages]

InitPrompt ==
    /\ db \in PromptStores
    /\ config = NoConfig
    /\ conn = db
    /\ last = PromptCall("none", NoArgs, <<>>, <<>>, <<>>, <<>>)
    /\ guard_in = NoGuardIn
    /\ guard_out = NoGuardOut

FetchedWorld(args, world) ==
    /\ last' = PromptCall("fetch_world_bible", args, world.rows, world.blocks, world.preview,
                          <<>>)
    /\ UNCHANGED <<db, config, conn, guard_in, guard_out>>

FetchWorldBible ==
    \E campaign_id \in CampaignIds, tags \in TagLists, limit \in WorldLimits, tie \in TieOrders :
        FetchedWorld([NoArgs EXCEPT !.campaign_id = campaign_id, !.tags = tags, !.limit = limit],
                     fetch_world_bible(db, campaign_id, tags, limit, tie))

FetchedTurns(args, messages) ==
    /\ last' = PromptCall("fetch_recent_turn_context", args, <<>>, <<>>, <<>>, messages)
    /\ UNCHANGED <<db, config, conn, guard_in, guard_out>>

FetchRecentTurns ==
    \E session_id \in SessionIds, limit \in TurnLimits :
        FetchedTurns([NoArgs EXCEPT !.session_id = session_id, !.limit = limit],
                     fetch_recent_turn_context(db, session_id, limit))

FetchedStory(args, blocks) ==
    /\ last' = PromptCall("story_blocks", args, <<>>, blocks, <<>>, <<>>)
    /\ UNCHANGED <<db, config, conn, guard_in, guard_out>>

StoryBlocks ==
    \E session_id \in SessionIds, limit \in StoryLimits :
        FetchedStory([NoArgs EXCEPT !.session_id = session_id, !.limit = limit,
                                    !.memory_cfg = MemoryConfig(0, limit)],
                     story_blocks(db, session_id, MemoryConfig(0, limit)))

Built(args, built) ==
    /\ last' = PromptCall("build_turn_messages_and_preview", args, <<>>, <<>>, built.preview,
                          built.messages)
    /\ UNCHANGED <<db, config, conn, guard_in, guard_out>>

BuildMessages ==
    \E session_id \in SessionIds, player_text \in PlayerTexts, tags \in {<<>>, << <<"f">> >>} :
      \E history \in {0, 2, HISTORY_TURNS_FOR_PROMPT}, tie \in TieOrders :
        Built([NoArgs EXCEPT !.campaign_id = 1, !.session_id = session_id, !.tags = tags,
                             !.player_text = player_text,
                             !.memory_cfg = MemoryConfig(history, STORY_JOURNAL_FOR_PROMPT)],
              build_turn_messages_and_preview(db, 1, session_id, player_text, <<"h", "p">>,
                  tags, MemoryConfig(history, STORY_JOURNAL_FOR_PROMPT), tie))

NextPrompt == FetchWorldBible \/ FetchRecentTurns \/ StoryBlocks \/ BuildMessages

SpecPrompt == InitPrompt /\ [][NextPrompt]_vars

(***************************************************************************)
(* The prompt of a long session: a store with more rows in every table     *)
(* than the prompt takes, and memory limits of every sign as               *)
(* load_memory_config reads them from the [memory] section (any text int() *)
(* accepts).  The store is given: journal rows and summaries as an earlier *)
(* run or another writer of the database file left them.  Each run makes   *)
(* one call.                                                               *)
(***************************************************************************)
\* the rows a table has beyond what the prompt takes of it
MaxExtraRows == 2

LongTurns(n) == [k \in 1..n |-> TurnRow(k, 1, k - 1, PlayerText, <<"o", "k">>)]

LongWorld(n) == [k \in 1..n |-> WorldRow(k, 1, <<"t">> \o IntToText(k), <<"f">>, k \div 2)]

LongThreads(n) ==
    [k \in 1..n |-> ThreadRow(k, 1, <<"q">> \o IntToText(k), "open", k % 3, <<>>, k \div 2)]

LongPromptStore ==
    PromptStore(LongTurns(HISTORY_TURNS_FOR_PROMPT + MaxExtraRows),
                JournalOf(Dense(1, 0, STORY_JOURNAL_FOR_PROMPT + MaxExtraRows - 1)),
                SummariesBoth,
                LongWorld(WorldBibleLimit + MaxExtraRows),
                LongThreads(ThreadListLimit + MaxExtraRows))

\* values of history_turns_for_prompt and story_journal_for_prompt
LongTurnLimits == {-2, 0, 1, HISTORY_TURNS_FOR_PROMPT, HISTORY_TURNS_FOR_PROMPT + MaxExtraRows + 1}

LongStoryLimits == {-1, 0, 2, STORY_JOURNAL_FOR_PROMPT, STORY_JOURNAL_FOR_PROMPT + MaxExtraRows + 1}

\* build_turn_messages_and_preview up to the RetrievedMemory it hands to
\* build_dm_messages
thread_blocks(open_threads) ==
    [i \in 1..Len(open_threads) |-> ThreadBlock(open_threads[i])]

retrieved_memory(d, campaign_id, session_id, tags, memory_cfg, tie) ==
    RetrievedMemory(fetch_world_bible(d, campaign_id, tags, WorldBibleLimit, tie).blocks,
                    story_blocks(d, session_id, memory_cfg),
                    thread_blocks(list_open_threads(d, session_id, ThreadListLimit)))

InitPromptLong ==
    /\ db = LongPromptStore
    /\ config = NoConfig
    /\ conn = db
    /\ last = PromptCall("none", NoArgs, <<>>, <<>>, <<>>, <<>>)
    /\ guard_in = NoGuardIn
    /\ guard_out = NoGuardOut

\* blocks holds the three lists of blocks
Retrieved(args, memory) ==
    /\ last' = PromptCall("retrieved_memory", args, <<>>, memory, <<>>, <<>>)
    /\ UNCHANGED <<db, config, conn, guard_in, guard_out>>

RetrieveMemory ==
    \E session_id \in SessionIds, story \in LongStoryLimits, history \in LongTurnLimits :
      \E tags \in {<<>>, << <<"f">> >>}, tie \in TieOrders :
        /\ last.call = "none"
        /\ Retrieved([NoArgs EXCEPT !.campaign_id = 1, !.session_id = session_id, !.tags = tags,
                                 !.memory_cfg = MemoryConfig(history, story)],
                  retrieved_memory(db, 1, session_id, tags, MemoryConfig(history, story), tie))

BuildLongMessages ==
    \E session_id \in SessionIds, story \in LongStoryLimits, history \in LongTurnLimits :
        /\ last.call = "none"
        /\ Built([NoArgs EXCEPT !.campaign_id = 1, !.session_id = session_id,
                             !.player_text = PlayerText,
                             !.memory_cfg = MemoryConfig(history, story)],
              build_turn_messages_and_preview(db, 1, session_id, PlayerText, <<"h", "p">>,
                  <<>>, MemoryConfig(history, story), "rowid"))

NextPromptLong == RetrieveMemory \/ BuildLongMessages

SpecPromptLong == InitPromptLong /\ [][NextPromptLong]_vars

(***************************************************************************)
(* persist_turn on stores that have rows in every table: the turn is       *)
(* parsed, persisted and committed as game_turn does it.  The stores are   *)
(* given: a session played for some turns with a journal row for every     *)
(* turn and the chapters the rollup made of them, sheets, change requests, *)
(* world bible entries and plot threads, and summaries of session 2.       *)
(* `last` keeps the store before the call.                                 *)
(***************************************************************************)
\* the summaries of session 2 were written after those of session 1
OtherSessionSummaries(d) ==
    insert_summary(insert_summary(d, 2, "chapter", 0, 19, <<"c", "2">>),
                   2, "campaign", 0, 19, <<"a", "l", "l", "2">>)

\* session 1 after `turns` turns with `chapters` chapters rolled up
FurnishedStore(turns, chapters) ==
    LET played == OtherSessionSummaries(
                      Played(StoreOf(JournalOf(Dense(1, 0, turns - 1))),
                             1, FirstRollupTurn, chapters))
    IN create_request(
         [played EXCEPT !.turn_logs = [k \in 1..turns |->
                                          TurnRow(k, 1, k - 1, PlayerText, <<"o", "k">>)],
                        !.character_sheets = SheetRows,
                        !.world_bible_entries = WorldEntries,
                        !.plot_threads = Threads],
         1, 0, "state_delta", DeltaA)

PersistTexts == {TxtNone, TxtSd, TxtBoth, TxtMem}

\* the turns persisted in one run
MaxPersistTurns == 2

PersistCall(before, session_id, raised, count) ==
    [op |-> "persist", before |-> before, session_id |-> session_id, raised |-> raised,
     count |-> count]

InitPersist ==
    /\ db \in { EmptyStore,
                FurnishedStore(CHAPTER_CHUNK + RECENT_BUFFER - 1, 0),
                FurnishedStore(FirstRollupTurn + CAMPAIGN_REGEN_CHAPTERS * CHAPTER_CHUNK,
                               CAMPAIGN_REGEN_CHAPTERS),
                PromptStore(TurnsPlain, JournalShort, SummariesBoth, WorldEntries, Threads) }
    /\ config = NoConfig
    /\ conn = db
    /\ last = PersistCall(db, NoSession, "", 0)
    /\ guard_in = NoGuardIn
    /\ guard_out = NoGuardOut

PersistedTurn(r, session_id) ==
    /\ conn' = r.db
    /\ db' = IF r.raised = "" THEN Committed(db, r.db) ELSE Discarded(db, r.db)
    /\ last' = PersistCall(db, session_id, r.raised, last.count + 1)
    /\ UNCHANGED <<config, guard_in, guard_out>>

PersistTurn ==
    \E session_id \in SessionIds, text \in PersistTexts :
        /\ last.count < MaxPersistTurns
        /\ PersistedTurn(persist_turn(db, session_id, PlayerText, text,
                                      parse_dm_text(text), "none"),
                         session_id)

NextPersist == PersistTurn

SpecPersist == InitPersist /\ [][NextPersist]_vars

(***************************************************************************)
(* A session played turn after turn: the installation is set up, every     *)
(* request is a turn of session 1 and the model answers each with a reply  *)
(* that carries memory suggestions or with one that carries none.  `last`  *)
(* counts the turns requested and keeps whether every reply so far carried *)
(* memory suggestions.                                                     *)
(***************************************************************************)
PlayTexts == {TxtMem, TxtNone}

\* the turns requested in one run: the first rollup is due at the turn with
\* index CHAPTER_CHUNK + RECENT_BUFFER - 1
MaxPlayTurns == 32

PlayCall(played, all_memory, outcome) ==
    [op |-> "play", played |-> played, all_memory |-> all_memory, outcome |-> outcome]

InitPlay ==
    /\ db = EmptyStore
    /\ config = setup_post(NoConfig, <<"u">>, <<>>, <<"m", " ">>, 600).cfg
    /\ conn = EmptyStore
    /\ last = PlayCall(0, TRUE, "")
    /\ guard_in = NoGuardIn
    /\ guard_out = NoGuardOut

PlayedTurn(res, with_memory) ==
    /\ db' = res.db
    /\ config' = res.cfg
    /\ conn' = res.conn
    /\ last' = PlayCall(last.played + 1, last.all_memory /\ with_memory, res.outcome)
    /\ UNCHANGED <<guard_in, guard_out>>

PlayTurn ==
    \E text \in PlayTexts :
        /\ last.played < MaxPlayTurns
        /\ PlayedTurn(game_turn(db, config, 1, PlayerText, ReplyOk(text), "none"),
                      text = TxtMem)

NextPlay == PlayTurn

SpecPlay == InitPlay /\ [][NextPlay]_vars

(***************************************************************************)
(* Turn persistence (specification Spec).                                  *)
(***************************************************************************)
\* the committed turns of a session, oldest first
TurnsOf(d, session_id) ==
    SelectSeq(d.turn_logs, LAMBDA r : r.session_id = session_id)

\* C1: within one session the turn_index values of the committed turns are
\* exactly 0 .. n-1, in the order the turns were committed, whatever the
\* turns of the other session and whatever earlier turns produced.
C1_TurnIndexDense ==
    \A s \in SessionIds :
        LET turns == TurnsOf(db, s)
        IN \A i \in 1..Len(turns) : turns[i].turn_index = i - 1

\* both sessions hold turns, interleaved, and an earlier turn of session 1
\* produced change requests
C1_Witness ==
    /\ Len(TurnsOf(db, 1)) >= 2
    /\ Len(TurnsOf(db, 2)) >= 1
    /\ db.turn_logs[1].session_id # db.turn_logs[2].session_id
    /\ \E r \in RowSet(db.state_change_requests) :
           r.session_id = 1 /\ r.turn_index = 0


\* the sections of the reply stored in turn row t
SectionsOf(t) == parse_dm_text(t.dm_text)

NonBlank(text) == Strip(text) # <<>>

Count(b) == IF b THEN 1 ELSE 0

\* the rows of seq after the first n
RowsAfter(seq, n) == SubSeq(seq, n + 1, Len(seq))

\* C2: a turn request changes the stored state either not at all or by the
\* whole turn: the turn row, one change request per non-blank section and
\* the journal entry of a non-blank memory section, all carrying the turn's
\* session and index; when persisting fails part-way, nothing of the turn
\* is stored.
C2_TurnAllOrNothing ==
    [][last'.op = "game_turn" =>
        \/ db' = db
        \/ /\ last'.outcome = "ok"
           /\ Len(db'.turn_logs) = Len(db.turn_logs) + 1
           /\ SubSeq(db'.turn_logs, 1, Len(db.turn_logs)) = db.turn_logs
           /\ LET t == db'.turn_logs[Len(db'.turn_logs)]
                  dm == SectionsOf(t)
                  reqs == RowsAfter(db'.state_change_requests,
                                    Len(db.state_change_requests))
                  entries == RowsAfter(db'.story_journal_entries,
                                       Len(db.story_journal_entries))
              IN /\ t.session_id = last'.session_id
                 /\ Len(reqs) = Count(NonBlank(dm.state_delta_json))
                                  + Count(NonBlank(dm.thread_updates_json))
                 /\ \A i \in 1..Len(reqs) :
                        /\ reqs[i].session_id = t.session_id
                        /\ reqs[i].turn_index = t.turn_index
                 /\ Len(entries) = Count(NonBlank(dm.memory_suggestions))
                 /\ \A i \in 1..Len(entries) :
                        entries[i].session_id = t.session_id
    ]_vars

\* persisting failed in the rollup, after the turn row and a change request
\* were written on the connection, and a committed turn already existed:
\* the stored state holds none of the failed turn
C2_Witness ==
    /\ last.op = "game_turn"
    /\ last.outcome = "OperationalError"
    /\ last.fault = "rollup"
    /\ Len(db.turn_logs) >= 1
    /\ Len(conn.turn_logs) = Len(db.turn_logs) + 1
    /\ Len(conn.state_change_requests) > Len(db.state_change_requests)

\* C3: a turn request that finds no usable endpoint configuration, or whose
\* model call fails with a client error, writes nothing to the store and
\* consumes no turn index.
C3_NoWriteWithoutReply ==
    [][(last'.op = "game_turn"
        /\ last'.outcome \in {"not_configured", "client_error"}) =>
        /\ db' = db
        /\ conn' = db
        /\ \A s \in SessionIds :
               get_next_turn_index(db', s) = get_next_turn_index(db, s)
    ]_vars

\* the model call failed in a session that already had a committed turn
C3_Witness ==
    /\ last.op = "game_turn"
    /\ last.outcome = "client_error"
    /\ Len(TurnsOf(db, last.session_id)) >= 1
    /\ conn = db

\* the change requests of turn row t
RequestsOf(d, t) ==
    SelectSeq(d.state_change_requests,
              LAMBDA r : r.session_id = t.session_id /\ r.turn_index = t.turn_index)

KindsOf(reqs) == {reqs[i].kind : i \in 1..Len(reqs)}

\* C5: a committed turn has a state_delta request exactly when its
\* state-delta section is non-blank and a thread_updates request exactly
\* when its thread-updates section is non-blank, each independently of the
\* other, at most one per kind, pending, carrying the stripped section text
\* and the turn's index; there are no other requests.
C5_RequestsPerSection ==
    /\ \A i \in 1..Len(db.turn_logs) :
          LET t == db.turn_logs[i]
              dm == SectionsOf(t)
              reqs == RequestsOf(db, t)
          IN /\ ("state_delta" \in KindsOf(reqs)) = NonBlank(dm.state_delta_json)
             /\ ("thread_updates" \in KindsOf(reqs)) = NonBlank(dm.thread_updates_json)
             /\ Len(reqs) = Cardinality(KindsOf(reqs))
             /\ \A j \in 1..Len(reqs) :
                    /\ reqs[j].status = "pending"
                    /\ reqs[j].kind \in {"state_delta", "thread_updates"}
                    /\ reqs[j].delta_json_text =
                           Strip(IF reqs[j].kind = "state_delta"
                                 THEN dm.state_delta_json
                                 ELSE dm.thread_updates_json)
    /\ \A r \in RowSet(db.state_change_requests) :
          \E i \in 1..Len(db.turn_logs) :
              /\ db.turn_logs[i].session_id = r.session_id
              /\ db.turn_logs[i].turn_index = r.turn_index

\* committed turns with both requests, with a state_delta request only,
\* with a thread_updates request only and with none
C5_Witness ==
    LET kinds == {KindsOf(RequestsOf(db, db.turn_logs[i])) : i \in 1..Len(db.turn_logs)}
    IN /\ {"state_delta", "thread_updates"} \in kinds
       /\ \/ {{"state_delta"}, {"thread_updates"}} \subseteq kinds
          \/ {{"state_delta"}, {}} \subseteq kinds
          \/ {{"thread_updates"}, {}} \subseteq kinds

\* C6: a reply with a non-blank memory section is persisted and appends
\* exactly one journal entry, carrying the session's scene id and the turn's
\* index; a reply with a blank memory section appends none.
C6_MemoryJournalled ==
    [][(last'.op = "game_turn"
        /\ last'.outcome \notin {"not_configured", "client_error"}
        /\ last'.fault = "none") =>
        LET t == conn'.turn_logs[Len(conn'.turn_logs)]
            mem == Strip(SectionsOf(t).memory_suggestions)
            entries == RowsAfter(db'.story_journal_entries,
                                 Len(db.story_journal_entries))
        IN IF mem # <<>>
           THEN /\ last'.outcome = "ok"
                /\ Len(entries) = 1
                /\ entries[1].session_id = t.session_id
                /\ entries[1].scene_id = get_session_scene_id(db, t.session_id)
                /\ entries[1].turn_index = t.turn_index
                /\ entries[1].summary = mem
           ELSE entries = <<>>
    ]_vars


(***************************************************************************)
(* Review of change requests (specification SpecChanges).                  *)
(***************************************************************************)
\* the row of request id in store d (id is the key)
RequestRow(d, id) == CHOOSE r \in RowSet(d.state_change_requests) : r.id = id

\* the request an apply or reject handled in this step acts on: the rows
\* with the posted id in the session that was current
Target == get_request(db, last'.request_id, CurrentSession)

OtherRequestsKept ==
    \A i \in 1..Len(db.state_change_requests) :
        db.state_change_requests[i].id # last'.request_id =>
            db'.state_change_requests[i] = db.state_change_requests[i]

\* C4: the status of a request changes only from pending, to applied or to
\* rejected; a request that is applied or rejected keeps its status.
C4_StatusMonotonic ==
    [][\A i \in 1..Len(db.state_change_requests) :
          LET old == db.state_change_requests[i].status
              new == db'.state_change_requests[i].status
          IN new # old => old = "pending" /\ new \in {"applied", "rejected"}
    ]_vars

\* C7: apply on a request of another kind than state_delta, or whose delta
\* the validator rejects, completes, marks the request rejected with a
\* non-empty error text (the fixed reason, respectively the validator's
\* message) and leaves every character sheet and every other request as it
\* was.
C7_ApplyRejects ==
    [][\A r \in Target :
          LET guard == validate_state_delta_json(r.delta_json_text,
                                                 DefaultMaxChars, DefaultMaxDepth)
          IN (last'.op = "change_apply" /\ (r.kind # "state_delta" \/ ~guard.ok)) =>
                /\ last'.outcome \in {"rejected_kind", "rejected_invalid"}
                /\ RequestRow(db', r.id).status = "rejected"
                /\ RequestRow(db', r.id).error_text =
                      (IF r.kind # "state_delta" THEN ErrUnsupportedKind ELSE guard.err)
                /\ RequestRow(db', r.id).error_text \notin {NullText, ""}
                /\ db'.character_sheets = db.character_sheets
                /\ OtherRequestsKept
                /\ conn' = db'
    ]_vars

\* an invalid delta was just rejected with the validator's message, a
\* thread_updates request carries the fixed reason, and the session has a
\* character sheet
C7_Witness ==
    /\ last.op = "change_apply"
    /\ last.outcome = "rejected_invalid"
    /\ RequestRow(db, last.request_id).error_text = ErrNotObject
    /\ \E r \in RowSet(db.state_change_requests) :
          /\ r.kind = "thread_updates"
          /\ r.status = "rejected"
          /\ r.error_text = ErrUnsupportedKind
    /\ get_character_sheet(db, last.session_id) = Strip(SheetS1)

\* m is the deep merge of delta d into base b (all objects): m has the keys
\* of both; a key of d whose values in b and d are both objects is merged
\* recursively, any other key of d has d's value, and a key of b alone
\* keeps b's value
RECURSIVE IsMergeOf(_, _, _)
IsMergeOf(b, d, m) ==
    /\ IsDict(m)
    /\ DOMAIN m.o = (DOMAIN b.o) \cup (DOMAIN d.o)
    /\ \A k \in DOMAIN d.o :
          IF k \in DOMAIN b.o /\ IsDict(b.o[k]) /\ IsDict(d.o[k])
          THEN IsMergeOf(b.o[k], d.o[k], m.o[k])
          ELSE m.o[k] = d.o[k]
    /\ \A k \in (DOMAIN b.o) \ (DOMAIN d.o) : m.o[k] = b.o[k]

\* the stored sheet of a session read as a base object
SheetObject(d, session_id) ==
    LET text == get_character_sheet(d, session_id)
        loaded == JsonLoads(Strip(text))
    IN IF \E row \in RowSet(d.character_sheets) : row.session_id = session_id
       THEN (IF loaded.ok /\ IsDict(loaded.v) THEN loaded.v ELSE EmptyDict)
       ELSE EmptyDict

\* C8: apply on a state_delta request with a valid delta completes, stores
\* as the session's sheet a JSON text of the deep merge of the delta into
\* the current sheet (the empty object when there is no sheet or its text is
\* no JSON object) and marks the request applied, both in one commit, and
\* changes nothing else.
C8_ApplyMerges ==
    [][\A r \in Target :
          LET guard == validate_state_delta_json(r.delta_json_text,
                                                 DefaultMaxChars, DefaultMaxDepth)
              stored == JsonLoads(get_character_sheet(db', CurrentSession))
          IN (last'.op = "change_apply" /\ r.kind = "state_delta" /\ guard.ok) =>
                /\ last'.outcome = "applied"
                /\ stored.ok
                /\ IsMergeOf(SheetObject(db, CurrentSession), guard.obj, stored.v)
                /\ RequestRow(db', r.id).status = "applied"
                /\ OtherRequestsKept
                /\ \A s \in SessionIds \ {CurrentSession} :
                       get_character_sheet(db', s) = get_character_sheet(db, s)
                /\ conn' = db'
    ]_vars

\* a delta was just applied to a sheet with nested objects, a list and keys
\* the delta does not mention
C8_Witness ==
    /\ last.op = "change_apply"
    /\ last.outcome = "applied"
    /\ RequestRow(db, last.request_id).status = "applied"
    /\ JsonLoads(get_character_sheet(db, last.session_id)).v =
          deep_merge(JsonLoads(SheetS1).v, JsonLoads(DeltaA).v)


(***************************************************************************)
(* The validator (specification SpecGuard).                                *)
(***************************************************************************)
\* the argument text without surrounding whitespace, and what it parses to
GuardText   == Strip(guard_in.text)
GuardParsed == JsonLoads(GuardText)

MaxOf(S) == IF S = {} THEN 0 ELSE SetMax(S)

\* the deepest level of a value: the value itself is at level 1 and every
\* member of an object and element of an array, scalars too, one level
\* below the object or array holding it
RECURSIVE Levels(_)
Levels(v) ==
    IF IsList(v) THEN 1 + MaxOf({Levels(v.a[i]) : i \in 1..Len(v.a)})
    ELSE IF IsDict(v) THEN 1 + MaxOf({Levels(v.o[k]) : k \in DOMAIN v.o})
    ELSE 1

\* how many objects and arrays lie inside one another: scalars do not count
RECURSIVE ContainerLevels(_)
ContainerLevels(v) ==
    IF IsList(v) THEN 1 + MaxOf({ContainerLevels(v.a[i]) : i \in 1..Len(v.a)})
    ELSE IF IsDict(v) THEN 1 + MaxOf({ContainerLevels(v.o[k]) : k \in DOMAIN v.o})
    ELSE 0

StoreUntouched ==
    /\ db = EmptyStore
    /\ config = NoConfig
    /\ conn = EmptyStore

\* C9 (as the code has it): with the length measured after the surrounding
\* whitespace is stripped, validate rejects an empty or whitespace-only
\* text, a text longer than max_chars and a text whose top level is no
\* object, each with its own non-empty error, and touches no state; a text
\* of exactly max_chars characters that is an object within the depth limit
\* is accepted and the parsed object returned.
C9_RejectsByStrippedLength ==
    guard_out.done =>
        LET res == guard_out.res IN
        /\ GuardText = <<>> => ~res.ok /\ res.err = ErrEmpty
        /\ (GuardText # <<>> /\ Len(GuardText) > guard_in.max_chars) =>
               ~res.ok /\ res.err = ErrTooLarge
        /\ (GuardText # <<>> /\ Len(GuardText) <= guard_in.max_chars
              /\ GuardParsed.ok /\ ~IsDict(GuardParsed.v)) =>
               ~res.ok /\ res.err = ErrNotObject
        /\ (Len(GuardText) = guard_in.max_chars
              /\ GuardParsed.ok /\ IsDict(GuardParsed.v)
              /\ Levels(GuardParsed.v) <= guard_in.max_depth) =>
               res.ok /\ res.obj = GuardParsed.v
        /\ Cardinality({ErrEmpty, ErrTooLarge, ErrNotObject, ""}) = 4
        /\ StoreUntouched

\* a padded object whose stripped text has exactly max_chars characters was
\* accepted
C9_Witness ==
    /\ guard_out.done
    /\ guard_out.res.ok
    /\ Len(GuardText) = guard_in.max_chars
    /\ Len(guard_in.text) > guard_in.max_chars
    /\ guard_out.res.obj # EmptyDict

\* C9 as stated: a text longer than max_chars is rejected.
C9_RejectsLongerText ==
    (guard_out.done /\ Len(guard_in.text) > guard_in.max_chars) => ~guard_out.res.ok

\* the call gets as far as the depth check
ReachesDepthCheck ==
    /\ guard_out.done
    /\ GuardText # <<>>
    /\ Len(GuardText) <= guard_in.max_chars
    /\ GuardParsed.ok
    /\ IsDict(GuardParsed.v)

\* C10 (as the code has it): with the root object at level 1 and every
\* member and element, scalar leaves included, one level below its holder,
\* validate accepts an object exactly when its deepest level is at most
\* max_depth, returns the parsed object then, and reports the depth error
\* otherwise.
C10_DepthCountsLeaves ==
    ReachesDepthCheck =>
        LET res == guard_out.res IN
        /\ res.ok = (Levels(GuardParsed.v) <= guard_in.max_depth)
        /\ res.ok => res.obj = GuardParsed.v
        /\ ~res.ok => res.err = ErrTooDeep

\* an object holding an array and scalar leaves, as deep as the limit
\* allows, was accepted
C10_Witness ==
    /\ ReachesDepthCheck
    /\ guard_out.res.ok
    /\ guard_in.max_depth >= 3
    /\ Levels(guard_out.res.obj) = guard_in.max_depth
    /\ ContainerLevels(guard_out.res.obj) < guard_in.max_depth
    /\ \E k \in DOMAIN guard_out.res.obj.o : IsList(guard_out.res.obj.o[k])

\* C10 as stated: an object whose nesting of objects and arrays is at most
\* max_depth levels is accepted, a deeper one rejected.
C10_DepthCountsContainers ==
    ReachesDepthCheck =>
        guard_out.res.ok = (ContainerLevels(GuardParsed.v) <= guard_in.max_depth)

(***************************************************************************)
(* The rollup (specifications SpecRollup and SpecRollupLong).              *)
(***************************************************************************)
SummariesOf(d, session_id, level) ==
    {r \in RowSet(d.session_summaries) : r.session_id = session_id /\ r.level = level}

Chapters(d, session_id) == SummariesOf(d, session_id, "chapter")

Campaigns(d, session_id) == SummariesOf(d, session_id, "campaign")

\* progressEnd: the end_turn of the latest chapter, -1 without chapters
ProgressEnd(d, session_id) ==
    IF Chapters(d, session_id) = {} THEN -1
    ELSE SetMax({c.end_turn : c \in Chapters(d, session_id)})

\* the journal entries of the session in [progressEnd + 1, t - RECENT_BUFFER],
\* each named by its place in the table
Eligible(d, session_id, t) ==
    LET progressEnd == ProgressEnd(d, session_id)
        journal == d.story_journal_entries
    IN {i \in 1..Len(journal) :
           /\ journal[i].session_id = session_id
           /\ journal[i].turn_index # NullInt
           /\ journal[i].turn_index >= progressEnd + 1
           /\ journal[i].turn_index <= t - RECENT_BUFFER}

\* (turn_index, id) order of the entries at places i and j
Earlier(journal, i, j) ==
    \/ journal[i].turn_index < journal[j].turn_index
    \/ journal[i].turn_index = journal[j].turn_index /\ journal[i].id < journal[j].id

\* the first CHAPTER_CHUNK entries of E in that order
FirstChunk(journal, E) ==
    {i \in E : Cardinality({j \in E : Earlier(journal, j, i)}) < CHAPTER_CHUNK}

SetMin(S) == CHOOSE x \in S : \A y \in S : x <= y

\* c2 is the chapter inserted next after c1
NextChapter(d, session_id, c1, c2) ==
    /\ c1.id < c2.id
    /\ ~\E c \in Chapters(d, session_id) : c1.id < c.id /\ c.id < c2.id

\* the step is a run of the rollup
RollupRun == last'.op = "rollup" /\ last' # NoRollup

\* C11: every chapter summary of a session has start_turn <= end_turn, and
\* a chapter inserted later starts after the end_turn of every chapter
\* inserted before it, so the ranges are pairwise disjoint.
C11_ChaptersDisjointOrdered ==
    \A s \in SessionIds :
        /\ \A c \in Chapters(db, s) : c.start_turn <= c.end_turn
        /\ \A c1, c2 \in Chapters(db, s) :
              c1.id < c2.id => c1.end_turn < c2.start_turn

\* a session holds three chapters, one of them over turns without entries
C11_Witness ==
    \E s \in SessionIds :
        /\ Cardinality(Chapters(db, s)) >= 3
        /\ \E c \in Chapters(db, s) :
              c.end_turn - c.start_turn + 1 > CHAPTER_CHUNK

\* the turn_index values of the session's journal entries after turn n
JournalTurnsAfter(d, session_id, n) ==
    LET journal == d.story_journal_entries
    IN {journal[i].turn_index :
           i \in {j \in 1..Len(journal) : /\ journal[j].session_id = session_id
                                          /\ journal[j].turn_index # NullInt
                                          /\ journal[j].turn_index > n}}

C13_OneCampaignSummary ==
    \A s \in SessionIds :
        IF Cardinality(Chapters(db, s)) < CAMPAIGN_REGEN_CHAPTERS
        THEN Campaigns(db, s) = {}
        ELSE /\ Cardinality(Campaigns(db, s)) = 1
             /\ \A g \in Campaigns(db, s) : \A c \in Chapters(db, s) : c.id < g.id

\* both sessions hold their campaign summary, one of them regenerated
\* after a fourth chapter
C13_Witness ==
    /\ \A s \in SessionIds : Cardinality(Campaigns(db, s)) = 1
    /\ \E s \in SessionIds : Cardinality(Chapters(db, s)) > CAMPAIGN_REGEN_CHAPTERS

NewChapters(s) == Chapters(db', s) \ Chapters(db, s)

\* the non-blank summaries of the entries at the places F, stripped
SummariesIn(journal, F) ==
    {Strip(journal[i].summary) : i \in {j \in F : NonBlank(journal[j].summary)}}

\* C15: a run of the rollup with CHAPTER_CHUNK or more journal entries in
\* [progressEnd + 1, currentTurn - RECENT_BUFFER] inserts exactly one
\* chapter summary, from the first CHAPTER_CHUNK of them in (turn_index,
\* id) order: its range is their first and last turn_index and its lines
\* are their summaries; with fewer entries it inserts nothing.
C15_FullChunkOnly ==
    [][RollupRun =>
        \A s \in {last'.session_id} :
        \A journal \in {db.story_journal_entries} :
        \A E \in {Eligible(db, s, last'.current_turn_index)} :
           IF Cardinality(E) < CHAPTER_CHUNK
           THEN db'.session_summaries = db.session_summaries
           ELSE \A F \in {FirstChunk(journal, E)} :
                /\ Chapters(db, s) \subseteq Chapters(db', s)
                /\ Cardinality(NewChapters(s)) = 1
                /\ \A c \in NewChapters(s) :
                      /\ c.start_turn = SetMin({journal[i].turn_index : i \in F})
                      /\ c.end_turn = SetMax({journal[i].turn_index : i \in F})
                      /\ RowSet(SplitLines(c.summary)) = SummariesIn(journal, F)
    ]_vars

\* a run inserted a chapter and left entries of its window outside it:
\* one of the chapter's last turn and one of a later turn
C15_Witness ==
    /\ last.op = "rollup"
    /\ last.inserted >= 1
    /\ LET journal == db.story_journal_entries IN
       \E c \in Chapters(db, last.session_id) :
          /\ c.end_turn = ProgressEnd(db, last.session_id)
          /\ \E i, j \in 1..Len(journal) :
                /\ journal[i].session_id = last.session_id
                /\ journal[j].session_id = last.session_id
                /\ journal[i].turn_index = c.end_turn
                /\ NonBlank(journal[i].summary)
                /\ ~(Strip(journal[i].summary) \in RowSet(SplitLines(c.summary)))
                /\ journal[j].turn_index > c.end_turn
                /\ journal[j].turn_index <= last.current_turn_index - RECENT_BUFFER

\* the step runs the rollup again with the arguments of the run before it
SecondRun ==
    /\ RollupRun
    /\ last # NoRollup
    /\ last'.session_id = last.session_id
    /\ last'.current_turn_index = last.current_turn_index

C17_RecentTurnsKept ==
    [][RollupRun =>
        \A s \in {last'.session_id} :
        \A t \in {last'.current_turn_index} :
           /\ \A c \in NewChapters(s) : c.end_turn <= t - RECENT_BUFFER
           /\ t - RECENT_BUFFER < ProgressEnd(db, s) + 1 => db' = db
    ]_vars

\* a run inserted a chapter that ends exactly RECENT_BUFFER turns back, and
\* the session's journal has entries of the turns after it
C17_Witness ==
    /\ last.op = "rollup"
    /\ last.inserted >= 1
    /\ ProgressEnd(db, last.session_id) = last.current_turn_index - RECENT_BUFFER
    /\ JournalTurnsAfter(db, last.session_id, ProgressEnd(db, last.session_id)) # {}

(***************************************************************************)
(* Streamed turns (specification SpecStream).                              *)
(***************************************************************************)
\* the deltas of a model stream read to its end: the non-empty contents
\* before the first "done" event
RECURSIVE FullParts(_)
FullParts(events) ==
    IF events = <<>> \/ Head(events).kind = "done" THEN <<>>
    ELSE IF Head(events).kind = "content" /\ Head(events).text # <<>>
         THEN <<Head(events).text>> \o FullParts(Tail(events))
    ELSE FullParts(Tail(events))

\* the number of events of a model stream up to its end, a "done" event
\* counted
RECURSIVE EventsToEnd(_)
EventsToEnd(events) ==
    IF events = <<>> THEN 0
    ELSE IF Head(events).kind = "done" THEN 1
    ELSE 1 + EventsToEnd(Tail(events))

\* the request of the stream in `s` fails before the model stream is over
FailsEarly(s) == s.fails_at >= 0 /\ s.fails_at < EventsToEnd(s.events)

\* the client of the stream in `s` went away before the last delta was
\* received
GoneMidStream(s) == s.gone_at >= 0 /\ s.gone_at < Len(FullParts(s.events))

\* C18: a step of a streamed turn changes the stored data only when it is
\* the step after the last delta of the model stream, with every delta
\* received, and then the store is the committed turn of the whole text; in
\* a stream whose client went away before the last delta, or whose request
\* failed before the model stream was over, no step changes the store.
C18_CommitAfterFullResponse ==
    [][last'.op = "stream" =>
        /\ db' # db =>
             /\ last.op = "stream" /\ last.pc = "running" /\ last'.pc = "final"
             /\ last'.dm_parts = FullParts(last'.events)
             /\ Len(db'.turn_logs) = Len(db.turn_logs) + 1
             /\ db'.turn_logs[Len(db'.turn_logs)].dm_text
                  = JoinParts(FullParts(last'.events))
        /\ GoneMidStream(last') \/ FailsEarly(last') => db' = db
        /\ last'.pc \in {"running", "delta", "error"} => db' = db
    ]_vars

\* after a streamed turn that was committed, the client of a stream went
\* away between the first and the last delta, the generator was closed,
\* and the store holds the one turn
C18_Witness ==
    /\ last.op = "stream"
    /\ last.pc = "closed"
    /\ last.gone_at >= 1
    /\ GoneMidStream(last)
    /\ last.dm_parts # <<>>
    /\ Len(db.turn_logs) = 1
    /\ conn = db

(***************************************************************************)
(* The strict protocol of the parser (specification SpecParse).            *)
(***************************************************************************)
\* r is t without its leading and trailing whitespace
TrimOf(t, r) ==
    \E a \in 1..(Len(t) + 1), b \in 0..Len(t) :
        /\ r = SubSeq(t, a, b)
        /\ \A k \in 1..(a - 1) : t[k] \in WS
        /\ \A k \in (b + 1)..Len(t) : t[k] \in WS
        /\ r # <<>> => r[1] \notin WS /\ r[Len(r)] \notin WS

\* a marker line is a line equal to the reserved token
ExactMarker(line, f) == line = FieldKey(f)

\* a marker line is a line that is the reserved token once trimmed
TrimmedMarker(line, f) == TrimOf(line, FieldKey(f))

MarkerPlaces(IsMarker(_, _), lines, f) == {i \in 1..Len(lines) : IsMarker(lines[i], f)}

AllMarkerPlaces(IsMarker(_, _), lines) ==
    {i \in 1..Len(lines) : \E f \in FieldNames : IsMarker(lines[i], f)}

EachMarkerOnce(IsMarker(_, _), lines) ==
    \A f \in FieldNames : Cardinality(MarkerPlaces(IsMarker, lines, f)) = 1

\* the lines between the marker of f and the next marker or the end
SectionOf(IsMarker(_, _), lines, f) ==
    LET i == CHOOSE p \in MarkerPlaces(IsMarker, lines, f) : TRUE
        later == {j \in AllMarkerPlaces(IsMarker, lines) : j > i}
    IN SubSeq(lines, i + 1, IF later = {} THEN Len(lines) ELSE SetMin(later) - 1)

\* the lines of a choices section normalised one by one, the empty results
\* left out
RECURSIVE ChoicesOfLines(_)
ChoicesOfLines(block) ==
    IF block = <<>> THEN <<>>
    ELSE (IF StrictChoice(Head(block)) = <<>> THEN <<>> ELSE <<StrictChoice(Head(block))>>)
           \o ChoicesOfLines(Tail(block))

Chars(t) == {t[k] : k \in 1..Len(t)}

\* no character of the preamble lines is in a field (the content lines of
\* the calls have none of them)
NoPreamble(dm) ==
    /\ \A f \in FieldNames \ {"choices"} : Chars(dm[f]) \cap Chars(PreambleLine) = {}
    /\ \A k \in 1..Len(dm.choices) : Chars(dm.choices[k]) \cap Chars(PreambleLine) = {}

SectionsFollow(IsMarker(_, _)) ==
    last.op = "parse" /\ last.done /\ EachMarkerOnce(IsMarker, last.lines) =>
        /\ \A f \in FieldNames \ {"choices"} :
              TrimOf(JoinLines(SectionOf(IsMarker, last.lines, f)), last.dm[f])
        /\ last.dm.choices = ChoicesOfLines(SectionOf(IsMarker, last.lines, "choices"))
        /\ NoPreamble(last.dm)

\* C19: for a text with each of the six marker lines once, in any order,
\* every field of the result is the trimmed text of the lines between its
\* marker line and the next marker line or the end, the choices being those
\* lines normalised one by one, and no preamble line is in any field; a
\* marker line is a line equal to the reserved token.
C19_SectionsBetweenMarkers == SectionsFollow(ExactMarker)

\* the same with the marker lines the code recognises: the lines that are
\* a reserved token once trimmed
C19_SectionsBetweenTrimmedMarkers == SectionsFollow(TrimmedMarker)

\* a parsed text with a preamble, the six marker lines once and in another
\* order than the protocol's, and content in the last section
C19_Witness ==
    /\ last.op = "parse" /\ last.done
    /\ EachMarkerOnce(ExactMarker, last.lines)
    /\ EachMarkerOnce(TrimmedMarker, last.lines)
    /\ last.lines[1] = PreambleLine
    /\ ExactMarker(last.lines[Len(last.lines) - 1], "narration")
    /\ last.dm.narration = <<"a">>
    /\ last.dm.dm_notes # <<>>

\* the texts of the choice items, the empty lines left out
RECURSIVE ItemTexts(_)
ItemTexts(items) ==
    IF items = <<>> THEN <<>>
    ELSE (IF Head(items).form = "blank" THEN <<>> ELSE <<Head(items).x>>)
           \o ItemTexts(Tail(items))

\* the text of a "- x" line begins with a digit and goes on with other
\* characters
DigitLed(item) ==
    /\ item.form = "dash"
    /\ IsDigit(item.x[1])
    /\ \E k \in 1..Len(item.x) : ~IsDigit(item.x[k])

\* C20: the choices of a text whose choices section is made of lines
\* "- x", "N. x", "N) x" and empty lines are the texts x of those lines, in
\* the order of the lines.
C20_ChoiceFormsYieldText ==
    last.op = "parse" /\ last.done /\ EachMarkerOnce(TrimmedMarker, last.lines) =>
        last.dm.choices = ItemTexts(last.items)

\* the same for the sections without a "- x" line whose x begins with a
\* digit
C20_ChoiceFormsWithoutDigitLed ==
    last.op = "parse" /\ last.done /\ EachMarkerOnce(TrimmedMarker, last.lines)
      /\ (\A k \in 1..Len(last.items) : ~DigitLed(last.items[k])) =>
        last.dm.choices = ItemTexts(last.items)

\* a parsed text with a line of each form and an empty line among them
C20_Witness ==
    /\ last.op = "parse" /\ last.done
    /\ EachMarkerOnce(TrimmedMarker, last.lines)
    /\ last.items = TestItems
    /\ Len(last.dm.choices) = 3

(***************************************************************************)
(* The parser on texts of every kind (specification SpecParse).            *)
(***************************************************************************)
IsText(t) == DOMAIN t = 1..Len(t)

\* a structured result: the five texts and the list of non-empty choices
IsStructured(dm) ==
    /\ DOMAIN dm = FieldNames
    /\ \A f \in FieldNames : IsText(dm[f])
    /\ \A k \in 1..Len(dm.choices) : IsText(dm.choices[k]) /\ dm.choices[k] # <<>>

AllEmpty(dm) == \A f \in FieldNames : dm[f] = <<>>

Blank(text) == \A k \in 1..Len(text) : text[k] \in WS

\* C21: every call of the parser ends with a structured result, and for
\* the empty text and the texts of whitespace alone every field of it is
\* empty.
C21_ParseTotal ==
    last.op = "parse" /\ last.done =>
        /\ IsStructured(last.dm)
        /\ Blank(last.text) => AllEmpty(last.dm)

\* a text of whitespace alone was parsed
C21_Witness ==
    /\ last.op = "parse" /\ last.done
    /\ Len(last.text) >= 2
    /\ Blank(last.text)
    /\ AllEmpty(last.dm)

\* the keyword synonyms of the fallback for choices and for notes
ChoiceNoteKeywords ==
    {W_choices, Zh_kexuanxingdong, Zh_xuanxiang, W_dm_notes, W_dm_notes2,
     Zh_dmbeizhu, Zh_beizhu}

\* k occurs in t, letters compared without case
Occurs(t, k) ==
    \E i \in 1..(Len(t) - Len(k) + 1) :
        \A j \in 1..Len(k) : LowerChar(t[i + j - 1]) = LowerChar(k[j])

PlainTextIsNarration(IsMarker(_, _)) ==
    last.op = "parse" /\ last.done
      /\ AllMarkerPlaces(IsMarker, last.lines) = {}
      /\ (\A k \in ChoiceNoteKeywords : ~Occurs(last.text, k)) =>
        /\ TrimOf(last.text, last.dm.narration)
        /\ \A f \in FieldNames \ {"narration"} : last.dm[f] = <<>>

\* C22: for a text with no marker line and none of the keyword synonyms for
\* choices or notes the narration is the trimmed text and every other
\* field is empty; a marker line is a line equal to the reserved token.
C22_PlainTextIsNarration == PlainTextIsNarration(ExactMarker)

\* the same with the marker lines the code recognises
C22_PlainTextWithoutTrimmedMarkers == PlainTextIsNarration(TrimmedMarker)

\* a text of two lines with other keywords of the fallback, none of them
\* for choices or notes, was parsed into its narration
C22_Witness ==
    /\ last.op = "parse" /\ last.done
    /\ AllMarkerPlaces(TrimmedMarker, last.lines) = {}
    /\ \A k \in ChoiceNoteKeywords : ~Occurs(last.text, k)
    /\ Occurs(last.text, W_narration) \/ Len(last.lines) >= 2
    /\ last.dm.narration # <<>>
    /\ last.dm.narration # last.text

(***************************************************************************)
(* C29, C30: config.py                                                     *)
(***************************************************************************)
HasPercent(t) == \E i \in 1..Len(t) : t[i] = "%"

LlmTexts(llm) == {llm.provider, llm.base_url, llm.api_key, llm.model}

\* C29: an LLM config with a base_url and a model that was saved is loaded
\* back with the same provider, base_url, api_key, model and timeout, and a
\* saved app state is loaded back with the same campaign and session ids.
C29_ConfigRoundTrip ==
    /\ (last.op = "config" /\ last.call = "load_llm_config" /\ last.saved_llm.given
        /\ last.saved_llm.value.base_url # <<>> /\ last.saved_llm.value.model # <<>>)
       => /\ last.saved_llm.raised = ""
          /\ last.loaded_llm.found
          /\ last.loaded_llm.value = last.saved_llm.value
    /\ (last.op = "config" /\ last.call = "load_app_state" /\ last.saved_app.given)
       => last.loaded_app = last.saved_app.value

\* What the code keeps of C29: the round trip holds for an LLM config whose
\* texts are stripped, have no percent sign and name a provider; the app
\* state round trip holds as stated.
C29_RoundTripOfPlainValues ==
    /\ (last.op = "config" /\ last.call = "load_llm_config" /\ last.saved_llm.given
        /\ last.saved_llm.value.base_url # <<>> /\ last.saved_llm.value.model # <<>>
        /\ last.saved_llm.value.provider # <<>>
        /\ \A t \in LlmTexts(last.saved_llm.value) : ~HasPercent(t) /\ Strip(t) = t)
       => /\ last.saved_llm.raised = ""
          /\ last.loaded_llm.found
          /\ last.loaded_llm.value = last.saved_llm.value
    /\ (last.op = "config" /\ last.call = "load_app_state" /\ last.saved_app.given)
       => last.loaded_app = last.saved_app.value

\* an LLM config with a base_url, a model and an API key holding a percent
\* sign was handed to save_llm_config, which raised, and the file is then
\* loaded
C29_Witness ==
    /\ last.op = "config" /\ last.call = "load_llm_config" /\ last.saved_llm.given
    /\ last.saved_llm.value.base_url # <<>> /\ last.saved_llm.value.model # <<>>
    /\ HasPercent(last.saved_llm.value.api_key)
    /\ last.saved_llm.raised = "ValueError"

\* the raw text of a [memory] option asks for the default: the option is
\* missing, blank or not an integer
AsksDefault(sec, key) == key \notin sec.keys \/ ~ToInt(sec.opts[key]).ok

\* C30: load_memory_config does not raise; it returns the defaults 6 and 12
\* when the [memory] section is missing, and the default of every key that
\* is missing, blank or not an integer.
C30_MemoryDefaults ==
    (last.op = "config" /\ last.call = "load_memory_config")
    => /\ last.loaded_memory.raised = ""
       /\ ~config.memory.present => last.loaded_memory.value = MemoryConfig(6, 12)
       /\ AsksDefault(config.memory, "history_turns_for_prompt")
          => last.loaded_memory.value.history_turns_for_prompt = 6
       /\ AsksDefault(config.memory, "story_journal_for_prompt")
          => last.loaded_memory.value.story_journal_for_prompt = 12

\* What the code keeps of C30: the same for a [memory] section none of
\* whose values holds a percent sign.
C30_MemoryDefaultsWithoutPercent ==
    (last.op = "config" /\ last.call = "load_memory_config"
     /\ \A k \in config.memory.keys : ~HasPercent(config.memory.opts[k]))
    => /\ last.loaded_memory.raised = ""
       /\ ~config.memory.present => last.loaded_memory.value = MemoryConfig(6, 12)
       /\ AsksDefault(config.memory, "history_turns_for_prompt")
          => last.loaded_memory.value.history_turns_for_prompt = 6
       /\ AsksDefault(config.memory, "story_journal_for_prompt")
          => last.loaded_memory.value.story_journal_for_prompt = 12

\* load_memory_config was called on a file whose history_turns_for_prompt
\* is no integer and holds a percent sign, and raised
C30_Witness ==
    /\ last.op = "config" /\ last.call = "load_memory_config"
    /\ "history_turns_for_prompt" \in config.memory.keys
    /\ AsksDefault(config.memory, "history_turns_for_prompt")
    /\ last.loaded_memory.raised = "InterpolationSyntaxError"

(***************************************************************************)
(* C23..C26: the messages of a turn and what they are built from           *)
(***************************************************************************)
\* the rows of the session's limit most recent turns, oldest first
RecentTurnRows(d, session_id, limit) ==
    LET all == SelectSeq(d.turn_logs, LAMBDA r : r.session_id = session_id)
        recent == SelectSeq(all, LAMBDA r :
                     Cardinality({k \in 1..Len(all) : all[k].turn_index > r.turn_index}) < limit)
    IN Sorted(recent, LAMBDA i, j : recent[i].turn_index < recent[j].turn_index)

\* the turns a message may come from
TurnsOfMessage(m, rows) ==
    {rows[k].turn_index : k \in {k \in 1..Len(rows) :
        \/ m.role = "user" /\ m.content = Strip(rows[k].player_text)
        \/ m.role = "assistant" /\ m.content = AssistantContent(Strip(rows[k].dm_text))}}

\* the messages come from turns of the rows that never go back in time
RECURSIVE Chronological(_, _, _)
Chronological(ms, rows, from) ==
    IF ms = <<>> THEN TRUE
    ELSE LET later == {t \in TurnsOfMessage(ms[1], rows) : t >= from}
         IN later # {} /\ Chronological(Tail(ms), rows,
                                        CHOOSE t \in later : \A u \in later : t <= u)

\* the places of the four headings of the context message: one each, the
\* first at the start
HeadingsInOrder(content) ==
    LET Places(heading) == {i \in 1..Len(content) : content[i] = heading}
        headings == <<"heading_WorldBible", "heading_PlotThreads", "heading_StoryJournal",
                      "heading_state">>
    IN /\ \A k \in 1..4 : Cardinality(Places(headings[k])) = 1
       /\ Places(headings[1]) = {1}
       /\ \A k \in 1..3 : \A i \in Places(headings[k]), j \in Places(headings[k + 1]) : i < j

\* C23: the messages built for a turn are the system rules, one system
\* message with the context blocks, the messages of the recent turns from
\* the oldest to the newest, and last of all one user message with the
\* player input.
C23_MessageOrder ==
    (last.op = "prompt" /\ last.call = "build_turn_messages_and_preview")
    => LET ms == last.messages
           n == Len(ms)
       IN /\ n >= 3
          /\ ms[1] = ChatMessage("system", SystemRules)
          /\ ms[2].role = "system" /\ HeadingsInOrder(ms[2].content)
          /\ \A i \in 3..(n - 1) : ms[i].role \in {"user", "assistant"}
          /\ Chronological(SubSeq(ms, 3, n - 1),
                           RecentTurnRows(db, last.args.session_id,
                                          last.args.memory_cfg.history_turns_for_prompt), 0)
          /\ ms[n] = ChatMessage("user", last.args.player_text)

\* messages were built for a session with recent turns in them
C23_Witness ==
    /\ last.op = "prompt" /\ last.call = "build_turn_messages_and_preview"
    /\ Len(last.messages) >= 7
    /\ last.messages[3].role = "user" /\ last.messages[4].role = "assistant"
    /\ last.messages[3].content # last.messages[5].content

\* one user and one assistant message for every row, in the order of the rows
PairPerTurn(ms, rows) ==
    /\ Len(ms) = 2 * Len(rows)
    /\ \A k \in 1..Len(rows) :
        /\ ms[2 * k - 1].role = "user"
        /\ ms[2 * k - 1].content = Strip(rows[k].player_text)
        /\ ms[2 * k].role = "assistant"
        /\ ms[2 * k].content = AssistantContent(Strip(rows[k].dm_text))

\* C24: the recent-turn messages are one user and one assistant message for
\* each of the limit most recent turns of the session, oldest turn first,
\* whatever the texts of the turn; none for a limit of zero or below.
C24_PairPerRecentTurn ==
    (last.op = "prompt" /\ last.call = "fetch_recent_turn_context")
    => IF last.args.limit <= 0 THEN last.messages = <<>>
       ELSE PairPerTurn(last.messages,
                        RecentTurnRows(db, last.args.session_id, last.args.limit))

NoBlankTurn(rows) ==
    \A k \in 1..Len(rows) : Strip(rows[k].player_text) # <<>> /\ Strip(rows[k].dm_text) # <<>>

\* What the code keeps of C24: the same when none of the recent turns has a
\* blank player text or a blank reply.
C24_PairPerRecentTurnWithTexts ==
    (last.op = "prompt" /\ last.call = "fetch_recent_turn_context")
    => IF last.args.limit <= 0 THEN last.messages = <<>>
       ELSE NoBlankTurn(RecentTurnRows(db, last.args.session_id, last.args.limit))
            => PairPerTurn(last.messages,
                           RecentTurnRows(db, last.args.session_id, last.args.limit))

\* the recent turns were asked for with a limit that takes in a turn whose
\* reply is empty and a turn whose player text is blank: four messages for
\* three turns
C24_Witness ==
    /\ last.op = "prompt" /\ last.call = "fetch_recent_turn_context"
    /\ last.args.limit > 0
    /\ \E k \in 1..Len(RecentTurnRows(db, last.args.session_id, last.args.limit)) :
          RecentTurnRows(db, last.args.session_id, last.args.limit)[k].dm_text = <<>>
    /\ Len(last.messages) = 4
    /\ Len(RecentTurnRows(db, last.args.session_id, last.args.limit)) = 3

\* the journal blocks of the session's limit most recent rows, oldest first
RecentJournalBlocks(d, session_id, limit) ==
    LET all == SelectSeq(d.story_journal_entries, LAMBDA r : r.session_id = session_id)
        recent == SelectSeq(all, LAMBDA r :
                     Cardinality({k \in 1..Len(all) : all[k].id > r.id}) < limit)
    IN [i \in 1..Len(recent) |-> StoryBlock(recent[i])]

SummaryBlocks(d, session_id, level, heading) ==
    IF get_latest_summary(d, session_id, level).found
    THEN <<SummaryBlock(heading, get_latest_summary(d, session_id, level))>>
    ELSE <<>>

C25_ChapterThenCampaign ==
    (last.op = "prompt" /\ last.call = "story_blocks")
    => last.blocks = SummaryBlocks(db, last.args.session_id, "chapter", "heading_chapter_summary")
                     \o SummaryBlocks(db, last.args.session_id, "campaign", "heading_campaign_summary")
                     \o RecentJournalBlocks(db, last.args.session_id, last.args.limit)

CampaignEntries(d, campaign_id) ==
    {d.world_bible_entries[k] : k \in {k \in 1..Len(d.world_bible_entries) :
                                        d.world_bible_entries[k].campaign_id = campaign_id}}

\* what a call of fetch_world_bible returned, whatever "the tag field has
\* the tag in it" means
WorldBibleSelection(HasTag(_, _)) ==
    LET rows == last.rows
        tags == last.args.tags
        returned == {rows[i] : i \in 1..Len(rows)}
    IN /\ Len(rows) <= last.args.limit
       /\ Cardinality(returned) = Len(rows)
       /\ returned \subseteq CampaignEntries(db, last.args.campaign_id)
       /\ \A i \in 1..(Len(rows) - 1) : rows[i].updated_at >= rows[i + 1].updated_at
       /\ tags = <<>> =>
            \A q \in CampaignEntries(db, last.args.campaign_id) \ returned :
                /\ Len(rows) = last.args.limit
                /\ \A r \in returned : q.updated_at <= r.updated_at
       /\ tags # <<>> =>
            \A r \in returned : \E k \in 1..Len(tags) : HasTag(r.tags, tags[k])
       /\ Len(last.blocks) = Len(rows) /\ Len(last.preview) = Len(rows)
       /\ \A i \in 1..Len(rows) :
            /\ last.preview[i] = [type |-> rows[i].type, title |-> rows[i].title,
                                  tags |-> rows[i].tags]
            /\ Contains(last.blocks[i], rows[i].title)

\* C26: fetch_world_bible returns at most limit entries of the campaign,
\* the most recently updated first; without tags the most recent ones, with
\* tags only entries whose tag field has one of the tags as a substring; the
\* preview has one item for each block, in the same order.
C26_WorldBibleBySubstring ==
    (last.op = "prompt" /\ last.call = "fetch_world_bible")
    => WorldBibleSelection(Contains)

Wildcards == {"%", "_"}

\* What the code keeps of C26: the same when "has the tag in it" is taken
\* as SQL's LIKE takes it: without the case of letters, and with the
\* characters % and _ of a tag standing for any text and any character.
C26_WorldBibleByLike ==
    (last.op = "prompt" /\ last.call = "fetch_world_bible")
    => WorldBibleSelection(LAMBDA field, tag : Like(field, <<"%">> \o tag \o <<"%">>))

\* entries were asked for by a tag with an underscore, and one was returned
\* whose tag field does not have the tag in it
C26_Witness ==
    /\ last.op = "prompt" /\ last.call = "fetch_world_bible"
    /\ Len(last.args.tags) = 1
    /\ \E i \in 1..Len(last.args.tags[1]) : last.args.tags[1][i] \in Wildcards
    /\ \E i \in 1..Len(last.rows) : ~Contains(last.rows[i].tags, last.args.tags[1])

(***************************************************************************)
(* C27: the non-streaming model call                                       *)
(***************************************************************************)
Ended == last.op = "chat" /\ last.call.pc # "running"

\* the attempts, the one retry and the errors of a call
AttemptsAndRetry ==
    last.op = "chat" =>
        /\ Len(last.call.met) <= 2
        /\ Len(last.call.met) = 2 => last.call.met[1].kind \in Transient
        /\ (Len(last.call.met) >= 1 /\ last.call.met[1].kind \notin Transient)
           => /\ Len(last.call.met) = 1
              /\ last.call.pc # "running"
        /\ last.call.pc = "running" => Len(last.call.met) <= 1
        /\ (Ended /\ last.call.met[Len(last.call.met)].kind # "response")
           => last.call.raised = "LLMClientError"
        /\ (Ended /\ last.call.met[Len(last.call.met)].kind = "response"
                  /\ \/ last.call.met[Len(last.call.met)].status >= 400
                     \/ last.call.met[Len(last.call.met)].body.shape \in {"not_json", "no_choices"})
           => last.call.raised = "LLMClientError"

\* C27: a call makes at most two attempts, the second only after a read
\* timeout or a connection error of the first; a status error or a response
\* of the wrong shape ends the call at once; and a call ends with the
\* completion text or with a client error.
C27_TextOrClientError ==
    /\ AttemptsAndRetry
    /\ Ended => \/ last.call.raised = "LLMClientError"
                \/ last.call.pc = "returned" /\ last.call.value.shape = "content"

\* What the code keeps of C27: the attempts and the retry as stated; a call
\* ends with a client error or with the content of the first choice, which
\* is a text or null.
C27_ContentOrClientError ==
    /\ AttemptsAndRetry
    /\ Ended => \/ last.call.raised = "LLMClientError"
                \/ /\ last.call.pc = "returned"
                   /\ last.call.value = last.call.met[Len(last.call.met)].body
                   /\ last.call.value.shape \in {"content", "null_content"}

\* a call whose first attempt timed out got a completion with a null
\* content at its second attempt, and returned
C27_Witness ==
    /\ last.op = "chat" /\ last.call.pc = "returned"
    /\ Len(last.call.met) = 2 /\ last.call.met[1].kind = "ReadTimeout"
    /\ last.call.value.shape = "null_content"

(***************************************************************************)
(* C28: the length of the stored summaries                                 *)
(***************************************************************************)
\* what is stored for the text src under the limit max_chars: the marker
\* for an empty text, the trimmed text when it fits, and otherwise a
\* beginning of it that ends with the ellipsis
StoredFor(stored, src, max_chars) ==
    IF Strip(src) = <<>> THEN stored = EmptyMarker
    ELSE IF Len(Strip(src)) <= max_chars THEN stored = Strip(src)
    ELSE /\ Len(stored) >= 1
         /\ stored[Len(stored)] = Ellipsis[1]
         /\ SubSeq(stored, 1, Len(stored) - 1) = SubSeq(Strip(src), 1, Len(stored) - 1)

\* the lines a chapter summary was made from
ChapterSource(d, c) ==
    JoinLines(SummaryLines(SubSeq(JournalRange(d, c.session_id, c.start_turn, c.end_turn),
                                  1, CHAPTER_CHUNK), 1))

\* the chapters a campaign summary was made from
CampaignSource(d, c) ==
    LET chapters == SelectSeq(list_chapter_summaries(d, c.session_id, ChapterListLimit),
                              LAMBDA r : r.end_turn <= c.end_turn)
    IN MergedChapters(chapters, 1)

\* C28: a stored chapter summary is not empty and has at most 1200
\* characters, a stored campaign summary is not empty and has at most 1500;
\* a text within the limit is stored trimmed, a longer one cut with the
\* ellipsis at its end, an empty one as the placeholder.
C28_SummaryLengths ==
    \A k \in 1..Len(db.session_summaries) :
        \A c \in {db.session_summaries[k]} :
            /\ c.summary # <<>>
            /\ c.level = "chapter" =>
                /\ Len(c.summary) <= 1200
                /\ StoredFor(c.summary, ChapterSource(db, c), 1200)
            /\ c.level = "campaign" =>
                /\ Len(c.summary) <= 1500
                /\ StoredFor(c.summary, CampaignSource(db, c), 1500)

\* the store has three chapter summaries that were cut to less than the
\* limit, because the cut fell after a line break, and a campaign summary
\* cut to 1500 characters
C28_Witness ==
    /\ Len(ChapterRows(db, 1)) = 3
    /\ \A k \in 1..3 : /\ Len(ChapterRows(db, 1)[k].summary) = 1199
                       /\ ChapterRows(db, 1)[k].summary[1199] = Ellipsis[1]
    /\ \E k \in 1..Len(db.session_summaries) :
          /\ db.session_summaries[k].level = "campaign"
          /\ Len(db.session_summaries[k].summary) = 1500
          /\ db.session_summaries[k].summary[1500] = Ellipsis[1]

(***************************************************************************)
(* C31: which lines start a section                                        *)
(***************************************************************************)
OptionalFields == {"state_delta_json", "thread_updates_json"}

\* a field without a marker line gets nothing: the two optional fields in
\* no case, the others at least when the text has a marker line of another
\* field
OnlyMarkerLinesStart(IsMarker(_, _)) ==
    (last.op = "parse" /\ last.done) =>
        \A f \in FieldNames :
            (/\ MarkerPlaces(IsMarker, last.lines, f) = {}
             /\ f \in OptionalFields \/ AllMarkerPlaces(IsMarker, last.lines) # {})
            => last.dm[f] = <<>>

\* C31: only a line equal to one of the six reserved tokens starts a
\* section: a field none of whose marker lines is in the text stays empty,
\* whatever other lines have the token in them.
C31_OnlyExactLinesStart == OnlyMarkerLinesStart(ExactMarker)

\* What the code keeps of C31: the same for the lines that are a reserved
\* token once trimmed; a token in another case or after other text starts
\* nothing.
C31_OnlyTrimmedLinesStart == OnlyMarkerLinesStart(TrimmedMarker)

\* a parsed text without a line equal to the token of the state delta, with
\* lines that have the token between a space and a tab, and with a state
\* delta in the result
C31_Witness ==
    /\ last.op = "parse" /\ last.done
    /\ MarkerPlaces(ExactMarker, last.lines, "state_delta_json") = {}
    /\ MarkerPlaces(TrimmedMarker, last.lines, "state_delta_json") # {}
    /\ last.dm.state_delta_json # <<>>

(***************************************************************************)
(* C32: a reply without marker lines asks for no change                    *)
(***************************************************************************)
NoMarkerNoRequest(IsMarker(_, _)) ==
    (last.op = "parse" /\ last.done /\ AllMarkerPlaces(IsMarker, last.lines) = {}) =>
        /\ last.dm.state_delta_json = <<>>
        /\ last.dm.thread_updates_json = <<>>
        /\ db.state_change_requests = <<>>
        /\ conn.state_change_requests = <<>>

\* C32: for a text without a marker line (a line equal to a reserved
\* token) the parsed state delta and thread updates are empty, whatever the
\* text has in it, and persisting the turn creates no change request.
C32_NoMarkerNoRequest == NoMarkerNoRequest(ExactMarker)

\* What the code keeps of C32: the same for the texts without a line that
\* is a reserved token once trimmed.
C32_NoTrimmedMarkerNoRequest == NoMarkerNoRequest(TrimmedMarker)

\* a turn was persisted whose reply has no line equal to a reserved token,
\* and the store has a change request from it
C32_Witness ==
    /\ last.op = "parse" /\ last.persisted
    /\ AllMarkerPlaces(ExactMarker, last.lines) = {}
    /\ db.state_change_requests # <<>>

\* a turn was persisted whose reply has JSON in it and no marker line of
\* either kind: the turn row is stored and no change request
C32_FallbackPersisted ==
    /\ last.op = "parse" /\ last.persisted
    /\ AllMarkerPlaces(TrimmedMarker, last.lines) = {}
    /\ Contains(last.text, ThreadU)
    /\ Len(db.turn_logs) = 1
    /\ db.state_change_requests = <<>>

(***************************************************************************)
(* C33: two turns in flight on one session                                 *)
(***************************************************************************)
CommittedEnds == {k \in 1..Len(last.log) : last.log[k].outcome = "committed"}

\* C33: with two turns in flight on one session, which may have read the
\* same turn index, the store never has two turn rows with the same session
\* and index: of the turns that read an index at most one commits with it,
\* and a turn that did not commit left nothing in the store.
C33_OneTurnPerIndex ==
    last.op = "race" =>
        /\ \A i, j \in 1..Len(db.turn_logs) :
              (/\ db.turn_logs[i].session_id = db.turn_logs[j].session_id
               /\ db.turn_logs[i].turn_index = db.turn_logs[j].turn_index) => i = j
        /\ \A i, j \in CommittedEnds : last.log[i].idx = last.log[j].idx => i = j
        /\ Len(db.turn_logs) = Cardinality(CommittedEnds)
        /\ \A k \in 1..Len(db.turn_logs) :
              \E i \in CommittedEnds : last.log[i].idx = db.turn_logs[k].turn_index
        /\ \A k \in 1..Len(db.state_change_requests) :
              \E i \in CommittedEnds :
                  last.log[i].idx = db.state_change_requests[k].turn_index

\* both turns read index 0 while neither had written; one committed a turn
\* with a change request, the other met the unique index and left nothing
C33_Witness ==
    /\ last.op = "race"
    /\ Len(last.log) = 2
    /\ last.log[1].outcome = "committed" /\ last.log[2].outcome = "IntegrityError"
    /\ last.log[1].idx = 0 /\ last.log[2].idx = 0
    /\ last.log[1].turn # last.log[2].turn
    /\ Len(db.turn_logs) = 1
    /\ Len(db.state_change_requests) = 1

(***************************************************************************)
(* C34: what persisting a turn leaves alone                                *)
(***************************************************************************)
Prefix(old, new) == Len(old) <= Len(new) /\ SubSeq(new, 1, Len(old)) = old

\* the store `after` against the store `before` a turn of the session was
\* persisted
OnlyAppended(before, after, session_id) ==
    /\ Prefix(before.turn_logs, after.turn_logs)
    /\ Prefix(before.story_journal_entries, after.story_journal_entries)
    /\ Prefix(before.state_change_requests, after.state_change_requests)
    /\ \A k \in 1..Len(before.session_summaries) :
          (\/ before.session_summaries[k].level # "campaign"
           \/ before.session_summaries[k].session_id # session_id)
          => \E j \in 1..Len(after.session_summaries) :
                 after.session_summaries[j] = before.session_summaries[k]
    /\ after.character_sheets = before.character_sheets
    /\ after.plot_threads = before.plot_threads
    /\ after.world_bible_entries = before.world_bible_entries
    /\ after.sessions = before.sessions

\* C34: persisting a turn only appends: the turn rows, journal rows and
\* change requests of before are still there unchanged, so is every
\* summary but the campaign summaries of the turn's session, and the
\* character sheets, plot threads and world bible are as they were.
C34_PersistOnlyAppends ==
    (last.op = "persist" /\ last.count > 0) =>
        /\ OnlyAppended(last.before, db, last.session_id)
        /\ OnlyAppended(last.before, conn, last.session_id)

\* a turn with a state delta was persisted on the session with three
\* chapters: a fourth chapter was made, the old campaign summary of the
\* session is gone and a new one is there, and a turn row and a change
\* request were added
C34_Witness ==
    /\ last.op = "persist" /\ last.count > 0 /\ last.raised = ""
    /\ Len(ChapterRows(last.before, last.session_id)) = CAMPAIGN_REGEN_CHAPTERS
    /\ Len(ChapterRows(db, last.session_id)) = CAMPAIGN_REGEN_CHAPTERS + 1
    /\ \E k \in 1..Len(last.before.session_summaries) :
          /\ last.before.session_summaries[k].level = "campaign"
          /\ last.before.session_summaries[k].session_id = last.session_id
          /\ \A j \in 1..Len(db.session_summaries) :
                db.session_summaries[j] # last.before.session_summaries[k]
    /\ Len(db.turn_logs) = Len(last.before.turn_logs) + 1
    /\ Len(db.state_change_requests) = Len(last.before.state_change_requests) + 1

(***************************************************************************)
(* C35: apply on a request that is no longer pending                       *)
(***************************************************************************)
\* C35: apply on a request that is already applied or already rejected
\* changes neither a character sheet nor a request.
C35_ApplyOnlyPending ==
    [][\A r \in Target :
          (last'.op = "change_apply" /\ r.status \in {"applied", "rejected"}) =>
              /\ db'.character_sheets = db.character_sheets
              /\ db'.state_change_requests = db.state_change_requests
    ]_vars

\* C35, the part about the sheet alone: a delta is merged into the sheet
\* only by an apply on a pending request.
C35_MergedOnlyWhenPending ==
    [][(last'.op = "change_apply" /\ db'.character_sheets # db.character_sheets) =>
          \A r \in Target : r.status = "pending"
    ]_vars

\* what the handler does instead: the status of the request is not looked
\* at, so apply on a request with a valid state delta merges it and marks
\* the request applied whatever its status was
C35_AppliedWhateverStatus ==
    [][\A r \in Target :
          (/\ last'.op = "change_apply"
           /\ r.kind = "state_delta"
           /\ validate_state_delta_json(Strip(r.delta_json_text),
                                        DefaultMaxChars, DefaultMaxDepth).ok) =>
              /\ last'.outcome = "applied"
              /\ RequestRow(db', r.id).status = "applied"
    ]_vars

\* a request with a valid state delta is applied and the session's sheet is
\* not what the last save or merge of that delta alone would have left: the
\* sheet has the delta's keys and the saved sheet's
C35_Witness ==
    /\ last.op = "change_apply"
    /\ last.outcome = "applied"
    /\ \E r \in RowSet(db.state_change_requests) :
          r.id = last.request_id /\ r.status = "applied" /\ r.kind = "state_delta"
    /\ IsMergeOf(JsonLoads(Strip(SheetS1)).v, JsonLoads(DeltaA).v,
                 SheetObject(db, last.session_id))

(***************************************************************************)
(* C36: apply and reject stay inside the current session (SpecReview)      *)
(***************************************************************************)
SheetsOfOthersKept(session_id) ==
    /\ \A row \in RowSet(db.character_sheets) :
          row.session_id # session_id => row \in RowSet(db'.character_sheets)
    /\ \A row \in RowSet(db'.character_sheets) :
          row.session_id # session_id => row \in RowSet(db.character_sheets)

\* C36: apply and reject with the id of a request of another session, or
\* of no request, change no request and no character sheet; any apply or
\* reject changes at most the named request and the current session's sheet,
\* and a reject changes no sheet.
C36_InsideCurrentSession ==
    [][last'.op \in {"change_apply", "change_reject"} =>
          /\ last'.session_id = CurrentSession
          /\ (\A r \in RowSet(db.state_change_requests) :
                 r.id = last'.request_id => r.session_id # CurrentSession) =>
                /\ db'.state_change_requests = db.state_change_requests
                /\ db'.character_sheets = db.character_sheets
          /\ OtherRequestsKept
          /\ SheetsOfOthersKept(CurrentSession)
          /\ last'.op = "change_reject" => db'.character_sheets = db.character_sheets
    ]_vars

\* session 2 is current, its request 2 was just applied and its sheet
\* written, while request 1 of session 1 is still pending and request 3 of
\* session 1 was rejected earlier
C36_Witness ==
    /\ last.op = "change_apply" /\ last.outcome = "applied"
    /\ last.session_id = 2 /\ last.request_id = 2
    /\ RequestRow(db, 2).status = "applied"
    /\ RequestRow(db, 1).status = "pending"
    /\ RequestRow(db, 3).status = "rejected"
    /\ \E row \in RowSet(db.character_sheets) : row.session_id = 2

\* session 2 is current and apply was just posted with the id of a request
\* of session 1: nothing was found
C36_WitnessForeign ==
    /\ last.op = "change_apply" /\ last.outcome = "not_found"
    /\ last.session_id = 2
    /\ \E r \in RowSet(db.state_change_requests) :
          r.id = last.request_id /\ r.session_id = 1 /\ r.status = "pending"

(***************************************************************************)
(* C37: algebra of the deep merge (SpecMerge)                              *)
(***************************************************************************)
\* C37: for every sheet b and delta d (JSON objects): merging d into the
\* merge of b and d gives that merge again, merging the empty object into
\* b gives b, and merging d into the empty object gives d.
C37_MergeIdempotent ==
    last.op = "deep_merge" =>
        /\ deep_merge(last.merged, last.delta) = last.merged
        /\ deep_merge(last.base, EmptyDict) = last.base
        /\ deep_merge(EmptyDict, last.delta) = last.delta

\* a merge that went into a nested object: sheet and delta share a key
\* whose values are objects with different keys, the delta replaces a list
\* of the sheet by another value, and the sheet has a key the delta has not
C37_Witness ==
    /\ last.op = "deep_merge"
    /\ \E k \in (DOMAIN last.base.o) \cap (DOMAIN last.delta.o) :
          /\ IsDict(last.base.o[k]) /\ IsDict(last.delta.o[k])
          /\ DOMAIN last.base.o[k].o # DOMAIN last.delta.o[k].o
          /\ last.merged.o[k] \notin {last.base.o[k], last.delta.o[k]}
          /\ \E j \in (DOMAIN last.base.o[k].o) \cap (DOMAIN last.delta.o[k].o) :
                /\ IsList(last.base.o[k].o[j])
                /\ last.delta.o[k].o[j] # last.base.o[k].o[j]
    /\ \E k \in DOMAIN last.base.o : k \notin DOMAIN last.delta.o
    /\ last.merged # last.base /\ last.merged # last.delta

(***************************************************************************)
(* C38: the chapters partition the summarised journal (SpecRollup)         *)
(***************************************************************************)
\* the places of the session's journal entries with a turn_index in
\* [from, to]
EntriesIn(d, session_id, from, to) ==
    {i \in 1..Len(d.story_journal_entries) :
        /\ d.story_journal_entries[i].session_id = session_id
        /\ d.story_journal_entries[i].turn_index # NullInt
        /\ d.story_journal_entries[i].turn_index >= from
        /\ d.story_journal_entries[i].turn_index <= to}

\* the journal of the session is one of persisted turns: a turn has one
\* index and at most one entry, so no two entries share a turn_index
OneEntryPerTurn(d, session_id) ==
    \A i, j \in EntriesIn(d, session_id, 0, FullTurns + CHAPTER_CHUNK) :
        d.story_journal_entries[i].turn_index = d.story_journal_entries[j].turn_index
            => i = j

\* C38: in a session whose journal has at most one entry per turn, the
\* range of every chapter summary contains exactly CHAPTER_CHUNK journal
\* entries of the session, and every journal entry with a turn_index up to
\* the latest chapter's end_turn lies in the range of exactly one chapter.
C38_ChaptersPartitionJournal ==
    \A s \in SessionIds :
        OneEntryPerTurn(db, s) =>
            /\ \A c \in Chapters(db, s) :
                  Cardinality(EntriesIn(db, s, c.start_turn, c.end_turn)) = CHAPTER_CHUNK
            /\ \A i \in EntriesIn(db, s, 0, ProgressEnd(db, s)) :
                  Cardinality({c \in Chapters(db, s) :
                      /\ c.start_turn <= db.story_journal_entries[i].turn_index
                      /\ db.story_journal_entries[i].turn_index <= c.end_turn}) = 1

\* a session with one entry per turn but not for every turn has three
\* chapters, one of them over more than CHAPTER_CHUNK turns, and entries
\* beyond the latest chapter that are not summarised yet
C38_Witness ==
    \E s \in SessionIds :
        /\ OneEntryPerTurn(db, s)
        /\ Cardinality(Chapters(db, s)) = CAMPAIGN_REGEN_CHAPTERS
        /\ \E c \in Chapters(db, s) : c.end_turn - c.start_turn >= CHAPTER_CHUNK
        /\ Cardinality(EntriesIn(db, s, 0, ProgressEnd(db, s)))
              = CAMPAIGN_REGEN_CHAPTERS * CHAPTER_CHUNK
        /\ EntriesIn(db, s, ProgressEnd(db, s) + 1, FullTurns) # {}

\* C38 without the condition on the journal: with two entries of one turn
\* at the end of a chunk the chapter's range holds an entry more than the
\* chapter was made of
C38_EveryJournalPartitioned ==
    \A s \in SessionIds :
        \A c \in Chapters(db, s) :
            Cardinality(EntriesIn(db, s, c.start_turn, c.end_turn)) = CHAPTER_CHUNK

(***************************************************************************)
(* C39: the rollup in a session where every turn carries memory            *)
(* suggestions (SpecPlay)                                                  *)
(***************************************************************************)
\* every reply so far carried memory suggestions and n turns were requested
AllMemoryPlay(n) == last.op = "play" /\ last.all_memory /\ last.played = n

C39_EveryTurnPersisted ==
    \A n \in 1..MaxPlayTurns :
        AllMemoryPlay(n) =>
            /\ last.outcome = "ok"
            /\ Len(db.turn_logs) = n
            /\ Len(db.story_journal_entries) = n

\* what the program does: in such a session every turn fails with
\* TypeError at the journal insert and nothing of it is stored, so the
\* session never has a turn, a journal entry or a summary
C39_NothingStored ==
    \A n \in 1..MaxPlayTurns :
        AllMemoryPlay(n) =>
            /\ last.outcome = "TypeError"
            /\ db = EmptyStore

\* without memory suggestions the turns are persisted, and the rollup
\* finds no journal entry to summarise
C39_NoJournalNoChapter ==
    /\ db.story_journal_entries = <<>>
    /\ db.session_summaries = <<>>

C39_WitnessPlain ==
    /\ last.op = "play" /\ ~last.all_memory
    /\ Len(db.turn_logs) = FirstRollupTurn + 1

\* the arithmetic of the claim on a store that has a journal entry for
\* every turn (SpecPersist): the turn persisted with index 31 makes the
\* chapter 0-19, and a turn persisted after it makes none
C39_PaceOnGivenJournal ==
    (/\ last.op = "persist" /\ last.count > 0 /\ last.raised = ""
     /\ last.session_id = 1
     /\ Len(last.before.story_journal_entries) = FirstRollupTurn
     /\ Chapters(last.before, 1) \subseteq Chapters(db, 1)) =>
        IF get_next_turn_index(last.before, 1) = FirstRollupTurn
        THEN /\ Chapters(last.before, 1) = {}
             /\ \E c \in Chapters(db, 1) :
                   /\ c.start_turn = 0 /\ c.end_turn = CHAPTER_CHUNK - 1
                   /\ Chapters(db, 1) = {c}
        ELSE Chapters(db, 1) = Chapters(last.before, 1)

(***************************************************************************)
(* C40: the size of the prompt (SpecPromptLong)                            *)
(***************************************************************************)
AtLeastZero(n) == IF n < 0 THEN 0 ELSE n

\* the prompt of the last call against a bound on its journal blocks
PromptWithin(journal_bound) ==
    /\ (last.op = "prompt" /\ last.call = "build_turn_messages_and_preview") =>
          Len(last.messages)
              <= 3 + 2 * AtLeastZero(last.args.memory_cfg.history_turns_for_prompt)
    /\ (last.op = "prompt" /\ last.call = "retrieved_memory") =>
          /\ Len(last.blocks.story_blocks) <= journal_bound + 2
          /\ Len(last.blocks.world_bible_blocks) <= WorldBibleLimit
          /\ Len(last.blocks.plot_threads_blocks) <= ThreadListLimit

C40_JournalUnboundedBelowZero ==
    /\ PromptWithin(IF last.args.memory_cfg.story_journal_for_prompt < 0
                    THEN JournalSize(db, last.args.session_id)
                    ELSE last.args.memory_cfg.story_journal_for_prompt)
    /\ (/\ last.op = "prompt" /\ last.call = "retrieved_memory"
        /\ last.args.memory_cfg.story_journal_for_prompt < 0) =>
          Len(last.blocks.story_blocks) >= JournalSize(db, last.args.session_id)

C40_WitnessBounds ==
    \/ /\ last.op = "prompt" /\ last.call = "build_turn_messages_and_preview"
       /\ last.args.memory_cfg.history_turns_for_prompt = HISTORY_TURNS_FOR_PROMPT
       /\ Len(last.messages) = 3 + 2 * HISTORY_TURNS_FOR_PROMPT
       /\ Len(db.turn_logs) > HISTORY_TURNS_FOR_PROMPT
    \/ /\ last.op = "prompt" /\ last.call = "retrieved_memory"
       /\ Len(last.blocks.world_bible_blocks) = WorldBibleLimit
       /\ Len(last.blocks.plot_threads_blocks) = ThreadListLimit
       /\ Len(db.plot_threads) > ThreadListLimit

=============================================================================
